---------------------------- MODULE Spec2Model ----------------------------
(***************************************************************************)
(* Expression rewriting of ibis/expr/analysis.py: substitution (sub_for,   *)
(* Substitutor), lifting (substitute_parents, ExprSimplifier), projection  *)
(* fusion (Projector), filter pushdown (apply_filter), the rewrite of      *)
(* scalar reductions into aggregations, the walks of lineage.traverse      *)
(* (is_reduction, flatten_predicate, find_subqueries) and                  *)
(* get_mutation_exprs.                                                     *)
(*                                                                         *)
(* An expression is a record [ty, op]: ty is the class of the expression   *)
(* wrapper ("Table", "IntegerColumn", ...) and op its operation node, a    *)
(* record [kind, <arguments>].  Nodes and expressions are immutable values *)
(* compared structurally, as Node.equals / Expr._key compare them.         *)
(***************************************************************************)
EXTENDS Integers, Sequences, FiniteSets, TLC

VARIABLES
    call,       \* the entry point that ran last ("none" after construction)
    expr,       \* its first argument
    arg,        \* its other argument, a record with the parameter's name as its field
    result,     \* what it returned
    shared,     \* TRUE: equal subexpressions of expr are one Python object; FALSE: each occurrence is its own object
    cache,      \* the memoization table of the Substitutor allocated last
    calls       \* how many entry points have run

vars == <<call, expr, arg, result, shared, cache, calls>>

\* ------------------------------------------------------------------ bounds

\* number of columns of each physical table
NumCols == 2
\* longest sequence of calls made one after the other
MaxCalls == 2

\* ------------------------------------------------------- nodes, expressions

None == "None"

E(ty, node) == [ty |-> ty, op |-> node]

IsExprTable(e) == e.ty = "Table"
IsExprValue(e) == e.ty # "Table"
IsExprScalar(e) == e.ty \in {"IntegerScalar", "BooleanScalar"}
IsExprBoolean(e) == e.ty \in {"BooleanColumn", "BooleanScalar"}

TableKinds == {"PhysicalTable", "Selection", "Aggregation", "CrossJoin"}
ReductionKinds == {"Sum"}
BinaryKinds == {"Greater", "Add", "And"}
ValueKinds ==
    {"Literal", "TableColumn", "Alias", "TableArrayView", "Window", "Unnest", "Struct"}
    \cup ReductionKinds \cup BinaryKinds

IsTableNode(node) == node.kind \in TableKinds
IsValueNode(node) == node.kind \in ValueKinds
IsReductionNode(node) == node.kind \in ReductionKinds

\* node.args: the argument names of each node class, in declared order
Signature(kind) ==
    CASE kind = "PhysicalTable" -> <<"name", "schema">>
      [] kind = "Selection" -> <<"table", "selections", "predicates", "sort_keys">>
      [] kind = "Aggregation" -> <<"table", "metrics", "by", "having", "predicates", "sort_keys">>
      [] kind = "CrossJoin" -> <<"left", "right", "predicates">>
      [] kind = "TableColumn" -> <<"table", "name">>
      [] kind = "Literal" -> <<"value">>
      [] kind = "Alias" -> <<"arg", "name">>
      [] kind = "TableArrayView" -> <<"table">>
      [] kind = "Sum" -> <<"arg", "where">>
      [] kind = "Window" -> <<"expr", "window">>
      [] kind = "Unnest" -> <<"arg">>
      [] kind = "Struct" -> <<"names">>
      [] kind \in BinaryKinds -> <<"left", "right">>

\* what an argument holds: one expression, a sequence of expressions, or
\* something that is no expression (a string, None)
ArgClass(node, f) ==
    IF f \in {"table", "left", "right", "arg", "expr"} THEN "expr"
    ELSE IF f \in {"selections", "predicates", "sort_keys", "metrics", "by", "having"} THEN "list"
    ELSE "other"

\* ------------------------------------------------------------ constructors

ColNames == <<"a", "b", "c", "d", "e", "f">>

PhysicalTable(name, schema) == E("Table", [kind |-> "PhysicalTable", name |-> name, schema |-> schema])

Selection(table, selections, predicates, sort_keys) ==
    [kind |-> "Selection", table |-> table, selections |-> selections,
     predicates |-> predicates, sort_keys |-> sort_keys]

Aggregation(table, metrics, by, having, predicates, sort_keys) ==
    [kind |-> "Aggregation", table |-> table, metrics |-> metrics, by |-> by,
     having |-> having, predicates |-> predicates, sort_keys |-> sort_keys]

CrossJoin(left, right) == [kind |-> "CrossJoin", left |-> left, right |-> right, predicates |-> <<>>]

TableColumn(table, name) == [kind |-> "TableColumn", table |-> table, name |-> name]

Literal(value) == [kind |-> "Literal", value |-> value]

Alias(a, name) == [kind |-> "Alias", arg |-> a, name |-> name]

Sum(a) == [kind |-> "Sum", arg |-> a, where |-> None]

Binary(kind, left, right) == [kind |-> kind, left |-> left, right |-> right]

TableArrayView(table) == [kind |-> "TableArrayView", table |-> table]

Window(e, w) == [kind |-> "Window", expr |-> e, window |-> w]

\* the rows of an array value: a column that rests on no table
Unnest(a) == [kind |-> "Unnest", arg |-> a]

\* a value of a struct type with the given field names
Struct(names) == [kind |-> "Struct", names |-> names]

\* ------------------------------------------------- names, schemas, typing

HasName(e) == e.op.kind \in {"TableColumn", "Alias", "TableArrayView"}

SeqToSet(s) == {s[i] : i \in DOMAIN s}

RECURSIVE SeqConcat(_)
SeqConcat(ss) == IF ss = <<>> THEN <<>> ELSE Head(ss) \o SeqConcat(Tail(ss))

RECURSIVE Schema(_)
RECURSIVE GetName(_)

\* the column names of a table expression
Schema(t) ==
    LET node == t.op IN
    CASE node.kind = "PhysicalTable" -> node.schema
      [] node.kind = "Selection" ->
            IF node.selections = <<>> THEN Schema(node.table)
            ELSE SeqConcat([i \in DOMAIN node.selections |->
                    IF IsExprTable(node.selections[i]) THEN Schema(node.selections[i])
                    ELSE <<GetName(node.selections[i])>>])
      [] node.kind = "Aggregation" ->
            [i \in DOMAIN (node.by \o node.metrics) |-> GetName((node.by \o node.metrics)[i])]
      [] node.kind = "CrossJoin" -> Schema(node.left) \o Schema(node.right)

\* the name of a named value expression; an unnamed one has the name None
GetName(e) ==
    CASE e.op.kind \in {"TableColumn", "Alias"} -> e.op.name
      [] e.op.kind = "TableArrayView" -> Schema(e.op.table)[1]
      [] OTHER -> None

\* expr.name(n)
Name(e, n) ==
    IF HasName(e) /\ GetName(e) = n THEN e
    ELSE IF e.op.kind = "Alias" THEN E(e.ty, Alias(e.op.arg, n))
    ELSE E(e.ty, Alias(e, n))

Shape(e) == IF e.ty \in {"IntegerColumn", "BooleanColumn"} THEN "Column" ELSE "Scalar"

\* node.to_expr(): the wrapper class the node's output type and shape give
ToExpr(node) ==
    LET shape2 == IF Shape(node.left) = "Column" \/ Shape(node.right) = "Column"
                  THEN "Column" ELSE "Scalar" IN
    CASE node.kind \in TableKinds -> E("Table", node)
      [] node.kind \in {"TableColumn", "TableArrayView"} -> E("IntegerColumn", node)
      [] node.kind = "Literal" -> E("IntegerScalar", node)
      [] node.kind = "Sum" -> E("IntegerScalar", node)
      [] node.kind = "Alias" -> E(node.arg.ty, node)
      [] node.kind \in {"Window", "Unnest"} -> E("IntegerColumn", node)
      [] node.kind = "Add" -> E(IF shape2 = "Column" THEN "IntegerColumn" ELSE "IntegerScalar", node)
      [] node.kind \in {"Greater", "And"} ->
            E(IF shape2 = "Column" THEN "BooleanColumn" ELSE "BooleanScalar", node)

\* the argument rules of the node classes: constructing a node whose
\* arguments break them raises IbisTypeError
NodeValid(node) ==
    CASE node.kind = "TableColumn" ->
            IsExprTable(node.table) /\ node.name \in SeqToSet(Schema(node.table))
      [] node.kind = "TableArrayView" -> IsExprTable(node.table) /\ Len(Schema(node.table)) = 1
      [] node.kind = "Alias" -> IsExprValue(node.arg)
      [] node.kind = "Window" -> IsExprValue(node.expr)
      [] node.kind = "Sum" -> node.arg.ty = "IntegerColumn"
      [] node.kind = "Add" -> node.left.ty \in {"IntegerColumn", "IntegerScalar"}
                              /\ node.right.ty \in {"IntegerColumn", "IntegerScalar"}
      [] node.kind = "Greater" -> IsExprValue(node.left) /\ IsExprValue(node.right)
      [] node.kind = "And" -> IsExprBoolean(node.left) /\ IsExprBoolean(node.right)
      [] node.kind \in {"Selection", "Aggregation"} -> IsExprTable(node.table)
      [] node.kind = "CrossJoin" -> IsExprTable(node.left) /\ IsExprTable(node.right)
      [] OTHER -> TRUE

\* node.blocks(): the node is opaque to substitution and to the root walk
blocks(node) ==
    CASE node.kind = "PhysicalTable" -> TRUE
      [] node.kind = "Aggregation" -> TRUE
      [] node.kind = "Selection" -> node.selections # <<>>
      [] OTHER -> FALSE

\* toolz.unique: the first occurrence of each element, order kept
RECURSIVE Unique(_, _)
Unique(s, seen) ==
    IF s = <<>> THEN <<>>
    ELSE IF Head(s) \in seen THEN Unique(Tail(s), seen)
    ELSE <<Head(s)>> \o Unique(Tail(s), seen \cup {Head(s)})

\* node.root_tables() of a table node: a physical table, a selection and an
\* aggregation are their own root, a join has the roots of its two sides
RECURSIVE root_tables(_)
root_tables(node) ==
    IF node.kind = "CrossJoin"
    THEN Unique(root_tables(node.left.op) \o root_tables(node.right.op), {})
    ELSE <<node>>

\* node.flat_args(): the arguments, sequences flattened, in declared order
flat_args(node) ==
    LET sig == Signature(node.kind) IN
    SeqConcat([i \in DOMAIN sig |->
        CASE ArgClass(node, sig[i]) = "expr" -> <<node[sig[i]]>>
          [] ArgClass(node, sig[i]) = "list" -> node[sig[i]]
          [] OTHER -> <<>>])

\* ---------------------------------------------------------------- traversal

proceed == "proceed"
halt == "halt"

\* what a visitor returns: (control, result); has = FALSE stands for a None result
Visit(ctl, has, res) == [ctl |-> ctl, has |-> has, res |-> res]

IsInstance(e, type) ==
    CASE type = "Expr" -> TRUE
      [] type = "Value" -> IsExprValue(e)
      [] type = "BooleanColumn" -> e.ty = "BooleanColumn"

RECURSIVE SelectSeq2(_, _)
SelectSeq2(s, type) ==
    IF s = <<>> THEN <<>>
    ELSE IF IsInstance(Head(s), type) THEN <<Head(s)>> \o SelectSeq2(Tail(s), type)
    ELSE SelectSeq2(Tail(s), type)

\* ------------------------------------------------------------- substitution

\* The state of one Substitutor: tab is the table of toolz.memoize, keyed by
\* the expression's _key (its class and node, compared structurally); on =
\* FALSE is _substitute called without the memoizing wrapper; caught counts
\* the IbisTypeErrors caught, raised tells that one escaped.
SubstitutorState(on, tab) == [on |-> on, tab |-> tab, caught |-> 0, raised |-> FALSE]

\* a Substitutor that goes on with the table the last one left
SubstitutorKeepsCache == SubstitutorState(TRUE, cache)

\* Substitutor.__init__: a new cache per substitution call
Substitutor == SubstitutorState(TRUE, <<>>)

\* what a substitution returns: the expression, whether it is the very
\* object that was passed in, and the Substitutor's state afterwards
SubResult(e, same, st) == [e |-> e, same |-> same, st |-> st]

\* mapping = {k.op(): v for k, v in substitutions}: a later pair replaces an
\* earlier pair with an equal key
RECURSIVE MappingOf(_)
MappingOf(substitutions) ==
    IF substitutions = <<>> THEN <<>>
    ELSE LET n == Len(substitutions)
             last == substitutions[n]
         IN (last[1].op :> last[2]) @@ MappingOf(SubSeq(substitutions, 1, n - 1))

\* the rebuild with no except clause: the IbisTypeError escapes
RebuildUncaught(e, new_node, st) ==
    IF ~NodeValid(new_node) THEN SubResult(e, TRUE, [st EXCEPT !.raised = TRUE])
    ELSE LET new_expr == E(e.ty, new_node)
         IN SubResult(IF HasName(e) THEN Name(new_expr, GetName(e)) ELSE new_expr, FALSE, st)

\* lines 87-96: the node is rebuilt from the new arguments; an IbisTypeError
\* gives the original expression back
Rebuild(e, new_node, st) ==
    IF ~NodeValid(new_node) THEN SubResult(e, TRUE, [st EXCEPT !.caught = @ + 1])
    ELSE LET new_expr == E(e.ty, new_node)
         IN SubResult(IF HasName(e) THEN Name(new_expr, GetName(e)) ELSE new_expr, FALSE, st)

RECURSIVE substitute(_, _, _)
RECURSIVE _substitute(_, _, _)
RECURSIVE SubstituteArgs(_, _, _, _, _)

\* the loop that stops after the first expression argument
SubstituteArgsFirstOnly(node, i, mapping, unchanged, st) ==
    LET sig == Signature(node.kind) IN
    IF i > Len(sig) \/ st.raised \/ ~unchanged THEN [node |-> node, unchanged |-> unchanged, st |-> st]
    ELSE IF ArgClass(node, sig[i]) # "expr"
    THEN SubstituteArgs(node, i + 1, mapping, unchanged, st)
    ELSE LET r == substitute(node[sig[i]], mapping, st)
         IN [node |-> [node EXCEPT ![sig[i]] = r.e], unchanged |-> r.same, st |-> r.st]

\* the loop that never reports its arguments unchanged
SubstituteArgsAlwaysNew(node, i, mapping, unchanged, st) ==
    LET sig == Signature(node.kind) IN
    IF i > Len(sig) \/ st.raised THEN [node |-> node, unchanged |-> FALSE, st |-> st]
    ELSE IF ArgClass(node, sig[i]) # "expr"
    THEN SubstituteArgs(node, i + 1, mapping, FALSE, st)
    ELSE LET r == substitute(node[sig[i]], mapping, st)
         IN SubstituteArgs([node EXCEPT ![sig[i]] = r.e], i + 1, mapping, FALSE, r.st)

\* lines 78-84: the loop over node.args; only an argument that is itself an
\* expression is substituted
SubstituteArgs(node, i, mapping, unchanged, st) ==
    LET sig == Signature(node.kind) IN
    IF i > Len(sig) \/ st.raised THEN [node |-> node, unchanged |-> unchanged, st |-> st]
    ELSE IF ArgClass(node, sig[i]) # "expr" THEN SubstituteArgs(node, i + 1, mapping, unchanged, st)
    ELSE LET r == substitute(node[sig[i]], mapping, st)
         IN SubstituteArgs([node EXCEPT ![sig[i]] = r.e], i + 1, mapping,
                           unchanged /\ r.same, r.st)

\* _substitute without the blocks() test
_substituteThroughBlocks(e, mapping, st) ==
    LET node == e.op IN
    IF node \in DOMAIN mapping THEN SubResult(mapping[node], FALSE, st)
    ELSE LET a == SubstituteArgs(node, 1, mapping, TRUE, st)
         IN IF a.st.raised THEN SubResult(e, TRUE, a.st)
            ELSE IF a.unchanged THEN SubResult(e, TRUE, a.st)
            ELSE Rebuild(e, a.node, a.st)

_substitute(e, mapping, st) ==
    LET node == e.op IN
    IF node \in DOMAIN mapping THEN SubResult(mapping[node], FALSE, st)
    ELSE IF blocks(node) THEN SubResult(e, TRUE, st)
    ELSE LET a == SubstituteArgs(node, 1, mapping, TRUE, st)
         IN IF a.st.raised THEN SubResult(e, TRUE, a.st)
            ELSE IF a.unchanged THEN SubResult(e, TRUE, a.st)
            ELSE Rebuild(e, a.node, a.st)

\* self.substitute = cache(self._substitute): a hit returns the object stored
\* for the first expression with this key, which is the argument itself only
\* if that one was returned as it was and the two are one object
substitute(e, mapping, st) ==
    IF st.on /\ e \in DOMAIN st.tab
    THEN SubResult(st.tab[e].e, st.tab[e].same /\ shared, st)
    ELSE LET r == _substitute(e, mapping, st)
         IN IF st.on /\ ~r.st.raised
            THEN SubResult(r.e, r.same,
                           [r.st EXCEPT !.tab = (e :> [e |-> r.e, same |-> r.same]) @@ @])
            ELSE r

sub_for(e, substitutions) == substitute(e, MappingOf(substitutions), Substitutor)

\* ------------------------------------------------------------------ lifting

\* what a rewrite returns: the expression and whether it is the very object
\* that was passed in
Lifted(e, same) == [e |-> e, same |-> same]

RECURSIVE get_result(_, _)
RECURSIVE LiftArgs(_, _, _, _)
RECURSIVE LiftList(_, _)

\* ExprSimplifier._sub: the catch-all recursive rewriter
_sub(e, block) == get_result(e, block)

\* ExprSimplifier.lift
lift(e, block) ==
    IF IsValueNode(e.op) THEN _sub(e, block)
    ELSE IF e.op.kind = "Selection" THEN Lifted(e, TRUE)
    ELSE IF IsTableNode(e.op) THEN Lifted(e, TRUE)
    ELSE _sub(e, block)

\* the last entry of the selection list that is a physical table with the name
\* in its schema, as the loop of _lift_TableColumn leaves it in lifted_root
RECURSIVE LiftedRoot(_, _, _)
LiftedRoot(selections, name, found) ==
    IF selections = <<>> THEN found
    ELSE LET val == Head(selections) IN
         IF val.op.kind = "PhysicalTable" /\ name \in SeqToSet(Schema(val))
         THEN LiftedRoot(Tail(selections), name, <<lift(val, FALSE).e>>)
         ELSE LiftedRoot(Tail(selections), name, found)

\* a lift that takes any table entry of the selection list for a physical table
_lift_TableColumnAnyTable(e, block) ==
    LET node == e.op
        root == node.table.op
        tabs == SelectSeq(root.selections, IsExprTable)
    IN IF root.kind = "Selection" /\ tabs # <<>> /\ ~block
       THEN Lifted(E(e.ty, TableColumn(tabs[Len(tabs)], node.name)), FALSE)
       ELSE Lifted(e, TRUE)

\* a lift that goes past the projection whatever block says
_lift_TableColumnUnblocked(e, block) ==
    LET node == e.op
        root == node.table.op
        found == LiftedRoot(root.selections, node.name, <<>>)
    IN IF root.kind = "Selection" /\ found # <<>>
       THEN Lifted(E(e.ty, TableColumn(found[1], node.name)), FALSE)
       ELSE Lifted(e, TRUE)

\* ExprSimplifier._lift_TableColumn
_lift_TableColumn(e, block) ==
    LET node == e.op
        root == node.table.op
        found == LiftedRoot(root.selections, node.name, <<>>)
    IN IF root.kind = "Selection" /\ found # <<>> /\ ~block
       THEN Lifted(E(e.ty, TableColumn(found[1], node.name)), FALSE)
       ELSE Lifted(e, TRUE)

\* _lift_arg on a sequence-valued argument: every element is lifted
LiftList(s, block) ==
    IF s = <<>> THEN [list |-> <<>>, unchanged |-> TRUE]
    ELSE LET h == lift(Head(s), block)
             t == LiftList(Tail(s), block)
         IN [list |-> <<h.e>> \o t.list, unchanged |-> h.same /\ t.unchanged]

\* lines 237-246: the loop of get_result over node.args, through _lift_arg
LiftArgs(node, i, block, unchanged) ==
    LET sig == Signature(node.kind) IN
    IF i > Len(sig) THEN [node |-> node, unchanged |-> unchanged]
    ELSE CASE ArgClass(node, sig[i]) = "expr" ->
                LET r == lift(node[sig[i]], block)
                IN LiftArgs([node EXCEPT ![sig[i]] = r.e], i + 1, block, unchanged /\ r.same)
           [] ArgClass(node, sig[i]) = "list" ->
                LET r == LiftList(node[sig[i]], block)
                IN LiftArgs([node EXCEPT ![sig[i]] = r.list], i + 1, block, unchanged /\ r.unchanged)
           [] OTHER -> LiftArgs(node, i + 1, block, unchanged)

\* ExprSimplifier.get_result, block being self.block_projection
get_result(e, block) ==
    LET node == e.op
        col == _lift_TableColumn(e, block)
        a == LiftArgs(node, 1, block, TRUE)
        rebuilt == E(e.ty, a.node)
    IN IF node.kind = "Literal" THEN Lifted(e, TRUE)
       ELSE IF node.kind = "TableColumn" /\ ~col.same THEN col
       ELSE IF node.kind = "Selection" THEN Lifted(e, TRUE)
       ELSE IF a.unchanged THEN Lifted(e, TRUE)
       ELSE Lifted(IF IsExprValue(e) /\ HasName(e) THEN Name(rebuilt, GetName(e)) ELSE rebuilt, FALSE)

substitute_parents(e, past_projection) == get_result(e, ~past_projection)

\* ----------------------------------------------------------------- lineage

\* find_immediate_parent_tables.finder
finder(x) == IF IsExprTable(x) THEN Visit(halt, TRUE, x) ELSE Visit(proceed, FALSE, None)

\* a predicate that goes on below the table nodes
predicateBelowTables(x) ==
    IF IsReductionNode(x.op) THEN Visit(halt, TRUE, TRUE)
    ELSE Visit(proceed, FALSE, None)

\* is_reduction.predicate
predicate(x) ==
    IF IsReductionNode(x.op) THEN Visit(halt, TRUE, TRUE)
    ELSE IF IsTableNode(x.op) THEN Visit(halt, FALSE, None)
    ELSE Visit(proceed, FALSE, None)

_find_root_table(e) ==
    IF e.op.kind = "Selection"
    THEN Visit(proceed, TRUE, Selection(e.op.table, e.op.selections, <<>>, <<>>))
    ELSE IF blocks(e.op) THEN Visit(halt, TRUE, e.op)
    ELSE Visit(proceed, FALSE, None)

\* _PushdownValidate.get_result.validate: a result is yielded for every
\* TableColumn met, and the walk always proceeds; the result yielded is the
\* column, from which _PushdownValidate computes _validate_projection
validate(x) ==
    IF x.op.kind = "TableColumn" THEN Visit(proceed, TRUE, x) ELSE Visit(proceed, FALSE, None)

\* flatten_predicate.predicate
flatten(x) ==
    IF x.op.kind = "And" THEN Visit(proceed, FALSE, None) ELSE Visit(halt, TRUE, x)

\* a visitor that yields every node
EveryNode(x) == Visit(proceed, TRUE, x.op)

\* fn(expr) in lineage.traverse, fn being the name of a visitor
CallFn(fn, x) ==
    CASE fn = "finder" -> finder(x)
      [] fn = "predicate" -> predicate(x)
      [] fn = "_find_root_table" -> _find_root_table(x)
      [] fn = "validate" -> validate(x)
      [] fn = "flatten" -> flatten(x)
      [] fn = "EveryNode" -> EveryNode(x)

\* the walk of lineage.traverse: depth first, arguments in declared order,
\* each node once when dedup; a halt keeps the node's result and skips its
\* arguments.  Returns the sequence of the results yielded.
RECURSIVE TraverseLoop(_, _, _, _, _)
TraverseLoop(fn, type, dedup, todo, seen) ==
    IF todo = <<>> THEN <<>>
    ELSE LET e == Head(todo)
             rest == Tail(todo)
         IN IF dedup /\ e.op \in seen THEN TraverseLoop(fn, type, dedup, rest, seen)
            ELSE LET v == CallFn(fn, e)
                     out == IF v.has THEN <<v.res>> ELSE <<>>
                     more == IF v.ctl = halt THEN <<>> ELSE SelectSeq2(flat_args(e.op), type)
                 IN out \o TraverseLoop(fn, type, dedup, more \o rest,
                                        IF dedup THEN seen \cup {e.op} ELSE seen)

traverse(fn, roots, type, dedup) == TraverseLoop(fn, type, dedup, SelectSeq2(roots, type), {})

find_immediate_parent_tables(e) == Unique(traverse("finder", <<e>>, "Expr", TRUE), {})

is_reduction(e) == TRUE \in SeqToSet(traverse("predicate", <<e>>, "Expr", TRUE))

\* a flattening that walks expressions of every type
flatten_predicateAnyType(e) == traverse("flatten", <<e>>, "Expr", TRUE)

flatten_predicate(e) == traverse("flatten", <<e>>, "BooleanColumn", TRUE)

\* find_subqueries.predicate run by lineage.traverse: counts is the Counter,
\* held as the sequence of the nodes counted, one entry for each increment;
\* the control returned is the arguments to go on with
RECURSIVE SubqueryLoop(_, _, _, _)
SubqueryLoop(dedup, todo, seen, counts) ==
    IF todo = <<>> THEN counts
    ELSE LET op == Head(todo).op
             rest == Tail(todo)
             counted == IF op.kind \in {"Selection", "Aggregation"} THEN Append(counts, op)
                        ELSE counts
             more == CASE op.kind = "CrossJoin" -> <<op.left, op.right>>
                       [] op.kind = "PhysicalTable" -> <<>>
                       [] op.kind \in {"Selection", "Aggregation"} -> <<op.table>>
                       [] op.kind = "TableColumn" ->
                            IF op.table.op \notin SeqToSet(counts) THEN flat_args(op) ELSE <<>>
                       [] OTHER -> flat_args(op)
         IN IF dedup /\ op \in seen THEN SubqueryLoop(dedup, rest, seen, counts)
            ELSE SubqueryLoop(dedup, more \o rest, IF dedup THEN seen \cup {op} ELSE seen,
                              counted)

\* a count of the subqueries made with the default dedup of lineage.traverse
find_subqueriesDedup(e) == SubqueryLoop(TRUE, <<e>>, {}, <<>>)

find_subqueries(e) == SubqueryLoop(FALSE, <<e>>, {}, <<>>)

is_scalar_reduction(e) == IsExprScalar(e) /\ is_reduction(e)

\* the normalized table dependencies of a sequence of expressions
RootDeps(exprs) == SeqToSet(traverse("_find_root_table", exprs, "Expr", TRUE))

shares_all_roots(exprs, parents) == RootDeps(exprs) \subseteq RootDeps(parents)

shares_some_roots(exprs, parents) == RootDeps(exprs) \cap RootDeps(parents) # {}

\* ------------------------------------------------------- projection fusion

\* expr.over(window()) of windowize_function, for the default window
DefaultWindow == "window()"
Over(e) ==
    LET r == ToExpr(IF e.op.kind = "Window" THEN e.op ELSE Window(e, DefaultWindow))
    IN IF HasName(e) THEN Name(r, GetName(e)) ELSE r

RECURSIVE _windowize(_)
RECURSIVE WalkArgs(_, _, _)

\* the loop of _walk: every argument that is a value expression is windowized
WalkArgs(node, i, unchanged) ==
    LET sig == Signature(node.kind) IN
    IF i > Len(sig) THEN [node |-> node, unchanged |-> unchanged]
    ELSE IF ArgClass(node, sig[i]) = "expr" /\ IsExprValue(node[sig[i]])
    THEN LET r == _windowize(node[sig[i]])
         IN WalkArgs([node EXCEPT ![sig[i]] = r.e], i + 1, unchanged /\ r.same)
    ELSE WalkArgs(node, i + 1, unchanged)

_walk(x) ==
    LET a == WalkArgs(x.op, 1, TRUE)
        new == ToExpr(a.node)
    IN IF a.unchanged THEN Lifted(x, TRUE)
       ELSE Lifted(IF HasName(x) THEN Name(new, GetName(x)) ELSE new, FALSE)

\* windowize_function(expr, w=None): a reduction becomes a window function
_windowize(x) ==
    LET child == _walk(x.op.expr)
        walked == IF x.op.kind # "Window" THEN _walk(x)
                  ELSE IF ~child.same
                  THEN Lifted(Name(ToExpr(Window(child.e, x.op.window)), GetName(x)), FALSE)
                  ELSE Lifted(x, TRUE)
    IN IF IsReductionNode(walked.e.op) THEN Lifted(Over(walked.e), FALSE) ELSE walked

windowize_function(x) == _windowize(x).e

\* table._ensure_expr(e): a column name, the string Str(n), is the table's
\* column, an expression is itself; a name the table does not have raises
Str(n) == [ty |-> "str", name |-> n]
IsColumnName(x) == x.ty = "str"
_ensure_expr(table, x) == IF IsColumnName(x) THEN ToExpr(TableColumn(table, x.name)) ELSE x
EnsureRaises(table, x) == IsColumnName(x) /\ x.name \notin SeqToSet(Schema(table))

\* lines 694-705: what a * projection adds to the fused expressions
Wildcard(root, fused) ==
    LET root_selections == root.selections
        added == [i \in DOMAIN root_selections |->
                    IF root_selections[i] = root.table THEN root.table ELSE root_selections[i]]
        have_root == \E i \in DOMAIN root_selections : root_selections[i] = root.table
    IN IF ~have_root /\ root_selections = <<>> THEN <<root.table>> \o (fused \o added)
       ELSE fused \o added

RECURSIVE FuseLoop(_, _, _, _)


\* the table candidate val is a * projection of the root (lines 687-692)
IsWildcard(root, val) ==
    /\ IsExprTable(val)
    /\ \/ root = val.op
       \/ /\ Len(root_tables(root.table.op)) = 1
          /\ root_tables(val.op)[1] = root_tables(root.table.op)[1]
          /\ shared

\* a loop that goes on past a candidate that fails the lineage test
FuseStepSkipFailed(root, val, lifted_val, rest, fused, can_fuse) ==
    IF IsWildcard(root, val)
    THEN FuseLoop(root, rest, Wildcard(root, fused), TRUE)
    ELSE IF shares_all_roots(<<lifted_val>>, <<root.table>>)
    THEN FuseLoop(root, rest, Append(fused, lifted_val), TRUE)
    ELSE IF ~shares_all_roots(<<val>>, <<root.table>>)
    THEN FuseLoop(root, rest, fused, can_fuse)
    ELSE FuseLoop(root, rest, Append(fused, val), can_fuse)

\* a loop that stops only at a candidate that has no root of the table of
\* the root at all
FuseStepSomeRoots(root, val, lifted_val, rest, fused, can_fuse) ==
    IF IsWildcard(root, val)
    THEN FuseLoop(root, rest, Wildcard(root, fused), TRUE)
    ELSE IF shares_all_roots(<<lifted_val>>, <<root.table>>)
    THEN FuseLoop(root, rest, Append(fused, lifted_val), TRUE)
    ELSE IF ~shares_some_roots(<<val>>, <<root.table>>)
    THEN [can_fuse |-> FALSE, fused |-> fused]
    ELSE FuseLoop(root, rest, Append(fused, val), can_fuse)

\* lines 683-713 of try_fusion: one round of the loop, on the candidate val
\* and its lifted form; the root of a table candidate is compared with "is",
\* which holds for equal nodes when they are one object
FuseStep(root, val, lifted_val, rest, fused, can_fuse) ==
    IF IsWildcard(root, val)
    THEN FuseLoop(root, rest, Wildcard(root, fused), TRUE)
    ELSE IF shares_all_roots(<<lifted_val>>, <<root.table>>)
    THEN FuseLoop(root, rest, Append(fused, lifted_val), TRUE)
    ELSE IF ~shares_all_roots(<<val>>, <<root.table>>)
    THEN [can_fuse |-> FALSE, fused |-> fused]
    ELSE FuseLoop(root, rest, Append(fused, val), can_fuse)

\* lines 680-713 of try_fusion: the loop over the resolved expressions
FuseLoop(root, resolved, fused, can_fuse) ==
    IF resolved = <<>> THEN [can_fuse |-> can_fuse, fused |-> fused]
    ELSE FuseStep(root, Head(resolved), substitute_parents(Head(resolved), FALSE).e,
                  Tail(resolved), fused, can_fuse)

NoFusion == [fused |-> FALSE, node |-> None]

\* a fused Selection that leaves the predicates and the sort keys behind
FusedSelectionBare(root, r) ==
    IF r.can_fuse
    THEN [fused |-> TRUE, node |-> Selection(root.table, r.fused, <<>>, <<>>)]
    ELSE NoFusion

\* lines 715-722 of try_fusion: the fused Selection, or None
FusedSelection(root, r) ==
    IF r.can_fuse
    THEN [fused |-> TRUE,
          node |-> Selection(root.table, r.fused, root.predicates, root.sort_keys)]
    ELSE NoFusion

\* lines 655-678 of try_fusion: the expressions to fuse, resolved against
\* the table of the parent Selection; none when they differ from clean_exprs
Resolved(input_exprs, clean_exprs, root_table) ==
    IF root_table.op.kind = "CrossJoin" THEN clean_exprs
    ELSE IF \E i \in DOMAIN input_exprs : EnsureRaises(root_table, input_exprs[i])
    THEN clean_exprs
    ELSE IF \E i \in DOMAIN input_exprs :
               _ensure_expr(root_table, input_exprs[i]) # clean_exprs[i]
    THEN <<>>
    ELSE clean_exprs

\* Projector.try_fusion(root), root being the parent's Selection node
try_fusion(input_exprs, clean_exprs, root) ==
    IF Resolved(input_exprs, clean_exprs, root.table) = <<>> THEN NoFusion
    ELSE FusedSelection(root, FuseLoop(root, clean_exprs, <<>>, FALSE))

\* a projection that never tries to fuse
get_result_ProjectorNested(parent, clean_exprs, roots_fuse, fused_op) ==
    [fused |-> FALSE, node |-> Selection(parent, clean_exprs, <<>>, <<>>)]

\* Projector.get_result, given whether the parent's roots are one Selection
\* and what try_fusion returns for it
get_result_Projector(parent, clean_exprs, roots_fuse, fused_op) ==
    IF roots_fuse /\ fused_op.fused THEN fused_op
    ELSE [fused |-> FALSE, node |-> Selection(parent, clean_exprs, <<>>, <<>>)]

\* Projector.__init__: self.clean_exprs
CleanExprs(parent, proj_exprs) ==
    [i \in DOMAIN proj_exprs |-> windowize_function(_ensure_expr(parent, proj_exprs[i]))]

\* Projector.__init__: self.parent_roots
ParentRoots(node) == IF node.kind = "Selection" THEN <<node>> ELSE root_tables(node)

\* whether the roots of the parent are one Selection (lines 635-638)
RootsFuse(roots) == Len(roots) = 1 /\ roots[1].kind = "Selection"

\* Projector(parent, proj_exprs).get_result()
Projector(parent, proj_exprs) ==
    get_result_Projector(parent, CleanExprs(parent, proj_exprs),
                         RootsFuse(ParentRoots(parent.op)),
                         try_fusion(proj_exprs, CleanExprs(parent, proj_exprs),
                                    ParentRoots(parent.op)[1]))

\* ---------------------------------------------------------- filter pushdown

RECURSIVE ValidateLoop(_, _, _)

\* a validation that accepts a column only from a whole table of the list
ValidateLoopTablesOnly(selections, e, is_valid) ==
    IF selections = <<>> THEN is_valid
    ELSE LET val == Head(selections) IN
         IF val.op.kind = "PhysicalTable" /\ e.op.name \in SeqToSet(Schema(val))
         THEN ValidateLoop(Tail(selections), e, TRUE)
         ELSE ValidateLoop(Tail(selections), e, is_valid)

\* a validation that looks at the first entry of the list only
ValidateLoopHeadOnly(selections, e, is_valid) ==
    IF selections = <<>> THEN is_valid
    ELSE LET val == Head(selections) IN
         IF val.op.kind = "PhysicalTable" /\ e.op.name \in SeqToSet(Schema(val))
         THEN TRUE
         ELSE IF val.op.kind = "TableColumn" /\ e.op.name = GetName(val)
         THEN val.op.table.op = e.op.table.op
         ELSE is_valid

\* _PushdownValidate._validate_projection: the loop runs over every entry of
\* the selection list, a later entry replacing the verdict of an earlier one
ValidateLoop(selections, e, is_valid) ==
    IF selections = <<>> THEN is_valid
    ELSE LET val == Head(selections)
             node == e.op
             col_table == val.op.table.op
             lifted_node == substitute_parents(e, FALSE).e.op
         IN IF val.op.kind = "PhysicalTable" /\ node.name \in SeqToSet(Schema(val))
            THEN ValidateLoop(Tail(selections), e, TRUE)
            ELSE IF val.op.kind = "TableColumn" /\ node.name = GetName(val)
            THEN ValidateLoop(Tail(selections), e,
                              col_table = node.table.op \/ col_table = lifted_node.table.op)
            ELSE ValidateLoop(Tail(selections), e, is_valid)

_validate_projection(parent, e) == ValidateLoop(parent.selections, e, FALSE)

\* a validation that lets a predicate with a reduction through
_PushdownValidateReductions(parent, pred) ==
    \A c \in SeqToSet(traverse("validate", <<pred>>, "Value", TRUE)) :
        _validate_projection(parent, c)

\* _PushdownValidate(parent, predicate).get_result()
_PushdownValidate(parent, pred) ==
    IF is_reduction(pred) THEN FALSE
    ELSE \A c \in SeqToSet(traverse("validate", <<pred>>, "Value", TRUE)) :
            _validate_projection(parent, c)

\* a test that one valid predicate is enough
_can_pushdownAny(op, predicates) ==
    \E i \in DOMAIN predicates : _PushdownValidate(op, predicates[i])

_can_pushdown(op, predicates) ==
    \A i \in DOMAIN predicates : _PushdownValidate(op, predicates[i])

\* the predicates of lines 458-463 and 410-420: what is not a reduction has
\* the key replaced by the value
SimplifiedPredicates(predicates, key, value) ==
    [i \in DOMAIN predicates |->
        IF ~is_reduction(predicates[i]) THEN sub_for(predicates[i], <<<<key, value>>>>).e
        ELSE predicates[i]]

\* a fusion that puts the new predicates before those of the Selection
_filter_selectionNewFirst(e, predicates) ==
    LET op == e.op
        simplified == SimplifiedPredicates(predicates, e, op.table)
        pushed == [i \in DOMAIN predicates |-> substitute_parents(predicates[i], TRUE).e]
    IN IF ~blocks(op) /\ shares_all_roots(simplified, <<op.table>>)
       THEN ToExpr(Selection(op.table, <<>>, simplified \o op.predicates, op.sort_keys))
       ELSE IF _can_pushdown(op, predicates)
       THEN ToExpr(Selection(op.table, op.selections, pushed \o op.predicates, op.sort_keys))
       ELSE ToExpr(Selection(e, <<>>, predicates, <<>>))

_filter_selection(e, predicates) ==
    LET op == e.op
        simplified == SimplifiedPredicates(predicates, e, op.table)
        pushed == [i \in DOMAIN predicates |-> substitute_parents(predicates[i], TRUE).e]
    IN IF ~blocks(op) /\ shares_all_roots(simplified, <<op.table>>)
       THEN ToExpr(Selection(op.table, <<>>, op.predicates \o simplified, op.sort_keys))
       ELSE IF _can_pushdown(op, predicates)
       THEN ToExpr(Selection(op.table, op.selections, op.predicates \o pushed, op.sort_keys))
       ELSE ToExpr(Selection(e, <<>>, predicates, <<>>))

\* a filter that always wraps the table it is given
apply_filterNested(e, predicates) ==
    IF predicates = <<>> THEN e
    ELSE ToExpr(Selection(e, <<>>, predicates, <<>>))

apply_filter(e, predicates) ==
    LET op == e.op
        simplified == SimplifiedPredicates(predicates, op.table, e)
    IN IF op.kind = "Selection" THEN _filter_selection(e, predicates)
       ELSE IF op.kind = "Aggregation" /\ shares_all_roots(simplified, <<op.table>>)
       THEN ToExpr(Aggregation(op.table, op.metrics, op.by, op.having,
                               op.predicates \o simplified, op.sort_keys))
       ELSE IF predicates = <<>> THEN e
       ELSE ToExpr(Selection(e, <<>>, predicates, <<>>))

\* ---------------------------------------------------------------- mutation

IsDestructColumn(e) == e.ty = "DestructColumn"

\* expr.type().names of a struct-typed expression
RECURSIVE TypeNames(_)
TypeNames(e) == IF e.op.kind = "Alias" THEN TypeNames(e.op.arg) ELSE e.op.names

\* the value None of overwriting_cols_to_expr
NoExpr == [ty |-> "NoneType"]

\* dict[key] = value
DictSet(dict, key, value) ==
    [k \in DOMAIN dict \cup {key} |-> IF k = key THEN value ELSE dict[k]]

\* lines 363-377: the loop over the names of a DestructColumn
RECURSIVE DestructLoop(_, _, _, _, _)
DestructLoop(names, e, table_schema, overwriting, is_first_overwrite) ==
    IF names = <<>> THEN [overwriting |-> overwriting, is_first_overwrite |-> is_first_overwrite]
    ELSE IF Head(names) \in table_schema
    THEN DestructLoop(Tail(names), e, table_schema,
                      DictSet(overwriting, Head(names), IF is_first_overwrite THEN e ELSE NoExpr),
                      FALSE)
    ELSE DestructLoop(Tail(names), e, table_schema, overwriting, is_first_overwrite)

\* lines 355-384: the loop over the assignment expressions; check_name is the
\* test of line 359.  get_name() of an unnamed value raises ExpressionError.
RECURSIVE MutationLoop(_, _, _, _, _)
MutationLoop(check_name, exprs, table_schema, overwriting, non_overwriting) ==
    IF exprs = <<>>
    THEN [raised |-> "none", overwriting |-> overwriting, non_overwriting |-> non_overwriting]
    ELSE LET e == Head(exprs)
             d == DestructLoop(TypeNames(e), e, table_schema, overwriting, TRUE)
         IN IF IsDestructColumn(e)
            THEN IF check_name /\ HasName(e)
                 THEN [raised |-> "ExpressionError", overwriting |-> overwriting,
                       non_overwriting |-> non_overwriting]
                 ELSE MutationLoop(check_name, Tail(exprs), table_schema, d.overwriting,
                                   IF d.is_first_overwrite THEN Append(non_overwriting, e)
                                   ELSE non_overwriting)
            ELSE IF IsExprValue(e) /\ ~HasName(e)
            THEN [raised |-> "ExpressionError", overwriting |-> overwriting,
                  non_overwriting |-> non_overwriting]
            ELSE IF IsExprValue(e) /\ GetName(e) \in table_schema
            THEN MutationLoop(check_name, Tail(exprs), table_schema,
                              DictSet(overwriting, GetName(e), e), non_overwriting)
            ELSE MutationLoop(check_name, Tail(exprs), table_schema, overwriting,
                              Append(non_overwriting, e))

\* lines 386-395: what get_mutation_exprs returns from the two collections
MutationExprs(exprs, table, r) ==
    LET columns == Schema(table)
        chosen == [i \in DOMAIN columns |->
                     IF columns[i] \in DOMAIN r.overwriting THEN r.overwriting[columns[i]]
                     ELSE ToExpr(TableColumn(table, columns[i]))]
    IN IF r.raised # "none" THEN [raised |-> r.raised, exprs |-> <<>>]
       ELSE IF DOMAIN r.overwriting # {}
       THEN [raised |-> "none",
             exprs |-> SelectSeq(chosen, LAMBDA x : x # NoExpr) \o r.non_overwriting]
       ELSE [raised |-> "none", exprs |-> <<table>> \o exprs]

\* a mutation that lets a named DestructColumn through
get_mutation_exprsNameUnchecked(exprs, table) ==
    MutationExprs(exprs, table, MutationLoop(FALSE, exprs, SeqToSet(Schema(table)), <<>>, <<>>))

get_mutation_exprs(exprs, table) ==
    MutationExprs(exprs, table, MutationLoop(TRUE, exprs, SeqToSet(Schema(table)), <<>>, <<>>))

\* ------------------------------------------------------ reduction rewriting

\* table.aggregate(metrics), left.cross_join(right), table[name],
\* table.projection(exprs) and table.to_array() of the table API
aggregate(table, metrics) == ToExpr(Aggregation(table, metrics, <<>>, <<>>, <<>>, <<>>))
cross_join(left, right) == ToExpr(CrossJoin(left, right))
GetColumn(table, name) == ToExpr(TableColumn(table, name))
projection(table, exprs) == ToExpr(Projector(table, exprs).node)
to_array(table) == ToExpr(TableArrayView(table))

has_multiple_bases(e) == Len(find_immediate_parent_tables(e)) > 1

\* what the rewrite of a reduction returns: the expression, the aggregates
\* collected in ScalarAggregate.tables, and the exception that escaped
Rewritten(e, tables, raised) == [e |-> e, tables |-> tables, raised |-> raised]

RECURSIVE reduction_to_aggregation(_, _)
RECURSIVE _visit(_, _, _)
RECURSIVE VisitArgs(_, _, _, _)
RECURSIVE VisitList(_, _, _)
RECURSIVE CrossJoinAll(_, _)

CrossJoinAll(table, others) ==
    IF others = <<>> THEN table ELSE CrossJoinAll(cross_join(table, Head(others)), Tail(others))

\* [self._visit(x) for x in arg]
VisitList(s, tables, active) ==
    IF s = <<>> THEN Rewritten(<<>>, tables, "none")
    ELSE LET h == _visit(Head(s), tables, active) IN
         IF h.raised # "none" THEN h
         ELSE LET t == VisitList(Tail(s), h.tables, active)
              IN Rewritten(<<h.e>> \o t.e, t.tables, t.raised)

\* lines 126-132: every argument is visited, expression or not
VisitArgs(node, i, tables, active) ==
    LET sig == Signature(node.kind) IN
    IF i > Len(sig) THEN Rewritten(node, tables, "none")
    ELSE CASE ArgClass(node, sig[i]) = "expr" ->
                LET r == _visit(node[sig[i]], tables, active) IN
                IF r.raised # "none" THEN r
                ELSE VisitArgs([node EXCEPT ![sig[i]] = r.e], i + 1, r.tables, active)
           [] ArgClass(node, sig[i]) = "list" ->
                LET r == VisitList(node[sig[i]], tables, active) IN
                IF r.raised # "none" THEN r
                ELSE VisitArgs([node EXCEPT ![sig[i]] = r.e], i + 1, r.tables, active)
           [] OTHER -> VisitArgs(node, i + 1, tables, active)

\* ScalarAggregate._visit; active holds the reductions whose rewrite is under
\* way, and meeting one of them again is the recursion that never ends
_visit(e, tables, active) ==
    IF is_scalar_reduction(e) /\ ~has_multiple_bases(e)
    THEN LET named == IF ~HasName(e) THEN Name(e, "tmp") ELSE e
             agg == reduction_to_aggregation(named, active)
         IN IF agg.raised # "none" THEN Rewritten(e, tables, agg.raised)
            ELSE Rewritten(GetColumn(agg.e, GetName(named)), Append(tables, agg.e), "none")
    ELSE LET a == VisitArgs(e.op, 1, tables, active)
             new_expr == ToExpr(a.e)
         IN IF a.raised # "none" THEN Rewritten(e, a.tables, a.raised)
            ELSE IF ~NodeValid(a.e) THEN Rewritten(e, a.tables, "IbisTypeError")
            ELSE Rewritten(IF HasName(e) THEN Name(new_expr, GetName(e)) ELSE new_expr,
                           a.tables, "none")

\* ScalarAggregate(expr).get_result()
ScalarAggregate(e, active) ==
    LET v == _visit(e, <<>>, active) IN
    IF v.raised # "none" THEN v
    ELSE IF v.tables = <<>> THEN Rewritten(e, <<>>, "IndexError")
    ELSE Rewritten(projection(CrossJoinAll(v.tables[1], Tail(v.tables)), <<v.e>>),
                   v.tables, "none")

\* a rewrite without the single-table case
reduction_to_aggregationNoShortcut(e, active) ==
    IF e \in active THEN Rewritten(e, <<>>, "RecursionError")
    ELSE ScalarAggregate(e, active \cup {e})

reduction_to_aggregation(e, active) ==
    LET tables == find_immediate_parent_tables(e) IN
    IF Len(tables) = 1 THEN Rewritten(aggregate(tables[1], <<e>>), <<>>, "none")
    ELSE IF e \in active THEN Rewritten(e, <<>>, "RecursionError")
    ELSE ScalarAggregate(e, active \cup {e})

\* what _rewrite_filter returns: the expression, whether it is the very
\* object passed in, and the exception that escaped
Filtered(e, same, raised) == [e |-> e, same |-> same, raised |-> raised]

RECURSIVE _rewrite_filter(_, _)
RECURSIVE RewriteArgs(_, _, _, _)

\* _rewrite_filter_reduction: a reduction inside of a filter becomes an aggregate
_rewrite_filter_reduction(e, name) ==
    LET named == IF name # None THEN Name(e, name) ELSE e
        aggregation == reduction_to_aggregation(named, {})
    IN IF aggregation.raised # "none" THEN Filtered(e, TRUE, aggregation.raised)
       ELSE IF Len(Schema(aggregation.e)) # 1 THEN Filtered(e, TRUE, "ExpressionError")
       ELSE Filtered(to_array(aggregation.e), FALSE, "none")

\* _rewrite_filter_subqueries: these operations are not rewritten
_rewrite_filter_subqueries(e, name) == Filtered(e, TRUE, "none")

\* _rewrite_filter_alias: the argument is rewritten under the alias's name,
\* unless a name was asked for
_rewrite_filter_alias(e, name) ==
    _rewrite_filter(e.op.arg, IF name # None THEN name ELSE e.op.name)

\* lines 1056-1061: every argument that is an expression is rewritten
RewriteArgs(node, i, name, unchanged) ==
    LET sig == Signature(node.kind) IN
    IF i > Len(sig) THEN [node |-> node, unchanged |-> unchanged, raised |-> "none"]
    ELSE IF ArgClass(node, sig[i]) # "expr" THEN RewriteArgs(node, i + 1, name, unchanged)
    ELSE LET r == _rewrite_filter(node[sig[i]], name) IN
         IF r.raised # "none" THEN [node |-> node, unchanged |-> unchanged, raised |-> r.raised]
         ELSE RewriteArgs([node EXCEPT ![sig[i]] = r.e], i + 1, name, unchanged /\ r.same)

\* a rewrite that rebuilds the node whether or not an argument changed
_rewrite_filter_valueRebuilds(e, name) ==
    LET a == RewriteArgs(e.op, 1, name, TRUE) IN
    IF a.raised # "none" THEN Filtered(e, TRUE, a.raised)
    ELSE IF ~NodeValid(a.node) THEN Filtered(e, TRUE, "IbisTypeError")
    ELSE Filtered(Name(ToExpr(a.node), IF ~HasName(e) THEN "tmp" ELSE GetName(e)), FALSE, "none")

\* _rewrite_filter_value: filter rewriting applied recursively
_rewrite_filter_value(e, name) ==
    LET a == RewriteArgs(e.op, 1, name, TRUE) IN
    IF a.raised # "none" THEN Filtered(e, TRUE, a.raised)
    ELSE IF a.unchanged THEN Filtered(e, TRUE, "none")
    ELSE IF ~NodeValid(a.node) THEN Filtered(e, TRUE, "IbisTypeError")
    ELSE Filtered(Name(ToExpr(a.node), IF ~HasName(e) THEN "tmp" ELSE GetName(e)), FALSE, "none")

\* the single dispatch of _rewrite_filter on the class of expr.op(); name is
\* the keyword argument, None when it is not given
_rewrite_filter(e, name) ==
    CASE IsReductionNode(e.op) -> _rewrite_filter_reduction(e, name)
      [] e.op.kind \in {"TableColumn", "Literal", "Window"} -> _rewrite_filter_subqueries(e, name)
      [] e.op.kind = "Alias" -> _rewrite_filter_alias(e, name)
      [] IsTableNode(e.op) -> Filtered(e, TRUE, "NotImplementedError")
      [] OTHER -> _rewrite_filter_value(e, name)

\* ------------------------------------------------------------------ inputs

\* two physical tables whose schemas overlap: t1 has the first NumCols
\* column names, t2 the NumCols names after the first
t1 == PhysicalTable("t1", SubSeq(ColNames, 1, NumCols))
t2 == PhysicalTable("t2", SubSeq(ColNames, 2, NumCols + 1))

Col(t, c) == E("IntegerColumn", TableColumn(t, c))
Lit == E("IntegerScalar", Literal(0))
Cols(t) == {Col(t, c) : c \in SeqToSet(Schema(t))}
FirstCol(t) == Col(t, Schema(t)[1])
LastCol(t) == Col(t, Schema(t)[Len(Schema(t))])

Gt(x, y) == ToExpr(Binary("Greater", x, y))
Plus(x, y) == ToExpr(Binary("Add", x, y))
SumOf(x) == ToExpr(Sum(x))
Sel(t, selections, predicates) == ToExpr(Selection(t, selections, predicates, <<>>))

\* a projection of t1, which blocks, and a pure filter of t1, which does not
S1 == Sel(t1, <<t1>>, <<Gt(FirstCol(t1), Lit)>>)
F1 == Sel(t1, <<>>, <<Gt(FirstCol(t1), Lit)>>)

\* the value expressions handed to sub_for
SubAtoms == Cols(t1) \cup {LastCol(t2)} \cup Cols(S1) \cup Cols(F1) \cup {Lit}
SubExprs ==
    SubAtoms
    \cup {Plus(x, y) : x, y \in SubAtoms}
    \cup {Gt(x, Lit) : x \in SubAtoms}
    \cup {SumOf(x) : x \in SubAtoms \ {Lit}}
    \cup {Name(x, "x") : x \in SubAtoms}
    \cup {Gt(Plus(x, y), Lit) : x, y \in SubAtoms}

\* the substitution lists: a column replaced by a column, by a table, by a
\* boolean or by an expression over the column itself; a table or a
\* selection replaced by a table
Substitutions ==
    {<<>>}
    \cup {<<<<FirstCol(t1), v>>>> :
            v \in {LastCol(t1), t2, Gt(LastCol(t1), Lit), Plus(FirstCol(t1), Lit)}}
    \cup {<<<<t1, t2>>>>, <<<<S1, t1>>>>, <<<<F1, t1>>>>}
    \cup {<<<<FirstCol(t1), LastCol(t1)>>, <<t1, t2>>>>,
          <<<<FirstCol(t1), Lit>>, <<FirstCol(t1), LastCol(t2)>>>>}

\* t1.select(a, b, ...): the projection of the plain columns of t1, bare,
\* with a predicate over t1, and with a predicate that also rests on t2
ColList(t) == [i \in DOMAIN Schema(t) |-> Col(t, Schema(t)[i])]
P1 == Sel(t1, ColList(t1), <<>>)
P1f == Sel(t1, ColList(t1), <<Gt(LastCol(t1), Lit)>>)
P1x == Sel(t1, ColList(t1), <<Gt(FirstCol(t1), SumOf(LastCol(t2)))>>)
\* the last column of t1 under the name of the first
PA == Sel(t1, <<Name(LastCol(t1), Schema(t1)[1])>>, <<>>)
\* all of t1 and, besides, its last column under a name t1 does not have
PX == Sel(t1, <<t1, Name(LastCol(t1), "x")>>, <<>>)
\* a projection of a projection, an aggregation and a join
SS == Sel(S1, <<S1>>, <<>>)
A1 == aggregate(t1, <<Name(SumOf(FirstCol(t1)), "s")>>)
J1 == cross_join(t1, t2)

\* a sorted projection with a predicate, and an aggregation with a group key
P1s == ToExpr(Selection(t1, ColList(t1), <<Gt(LastCol(t1), Lit)>>, <<LastCol(t1)>>))
A2 == ToExpr(Aggregation(t1, <<Name(SumOf(LastCol(t1)), "s")>>, <<FirstCol(t1)>>,
                         <<Gt(SumOf(LastCol(t1)), Lit)>>, <<Gt(LastCol(t1), Lit)>>,
                         <<FirstCol(t1)>>))

Tables == {t1, t2, S1, F1, P1, P1f, P1x, P1s, PA, SS, A1, A2, J1}

\* the schema of a Selection is built when the Selection is: no two entries
\* of its selection list give the same output name
OutputNames(selections) ==
    SeqConcat([i \in DOMAIN selections |->
                 IF IsExprTable(selections[i]) THEN Schema(selections[i])
                 ELSE <<GetName(selections[i])>>])
NamesUnique(selections) ==
    Cardinality(SeqToSet(OutputNames(selections))) = Len(OutputNames(selections))

\* a projection of the join of t1 and t2: all of t1 and the last column of t2
PJ == Sel(J1, <<t1, LastCol(t2)>>, <<>>)

\* the Selections whose selection lists are validated against, the columns
\* that are validated, and the orders of a selection list
Validated == {T \in Tables \cup {PJ} : T.op.kind = "Selection" /\ NamesUnique(T.op.selections)}
ValidatedColumns(parent) == Cols(t1) \cup Cols(t2) \cup Cols(parent)
Orders(s) ==
    {[i \in DOMAIN s |-> s[p[i]]] :
        p \in {q \in [DOMAIN s -> DOMAIN s] : \A i, j \in DOMAIN s : q[i] = q[j] => i = j}}

\* expressions that hold a reduction only inside a table they refer to, next
\* to one that holds a reduction of its own as well
ReductionProbes ==
    {FirstCol(A1), Gt(FirstCol(A1), Lit), FirstCol(P1x), Gt(LastCol(P1x), Lit),
     Plus(FirstCol(A1), SumOf(FirstCol(t1)))}

\* joins of a subquery with itself and with another one
SelfJoins == {cross_join(S1, S1), cross_join(S1, F1), cross_join(A1, cross_join(t1, A1))}

\* the value expressions handed to substitute_parents
LiftAtoms ==
    Cols(S1) \cup Cols(SS) \cup Cols(P1) \cup {FirstCol(t1), FirstCol(F1)}
    \cup {FirstCol(PA), Col(PX, "x")}
LiftExprs ==
    LiftAtoms
    \cup {Plus(x, y) : x, y \in LiftAtoms}
    \cup {Gt(x, Lit) : x \in LiftAtoms}
    \cup {Name(Plus(x, Lit), "x") : x \in LiftAtoms}
    \cup {SumOf(x) : x \in LiftAtoms}

\* the candidates of a projection of parent: columns of t1, of t2 and of the
\* parent, a column name, the parent and t1 as wildcards, and a reduction
Candidates(parent) ==
    LET atoms == Cols(t1) \cup {LastCol(t2), Col(parent, Schema(parent)[1]),
                               Str(Schema(parent)[1]), parent, t1,
                               Name(SumOf(FirstCol(t1)), "s")}
    IN {<<x>> : x \in atoms}
       \cup {<<x, y>> : x \in {FirstCol(t1), parent}, y \in {LastCol(t1), LastCol(t2), parent}}
       \cup {<<Name(SumOf(FirstCol(t1)), "s"), LastCol(t2)>>,
             <<LastCol(t2), FirstCol(t1)>>, <<FirstCol(t1), LastCol(t1), LastCol(t2)>>,
             <<FirstCol(t1), Col(parent, Schema(parent)[Len(Schema(parent))])>>,
             <<Name(Plus(FirstCol(t1), Lit), "x"), parent>>,
             <<parent, Name(Plus(FirstCol(t1), Lit), "x")>>}

\* the predicates of a filter of parent: over columns of t1, of t2 and of the
\* parent, one that compares a column of t1 with the column of t2 whose name
\* t1 has too, and one that holds a reduction
Predicates(parent) ==
    LET atoms == {Gt(x, Lit) : x \in Cols(t1) \cup {LastCol(t2), Col(parent, Schema(parent)[1])}}
                 \cup {Gt(FirstCol(t1), FirstCol(t2))}
                 \cup {Gt(FirstCol(t1), SumOf(FirstCol(t1)))}
    IN {<<>>}
       \cup {<<x>> : x \in atoms}
       \cup {<<Gt(FirstCol(t1), Lit), y>> : y \in atoms}

\* the predicates of a filter of the filter F of the table t: over the first
\* column of t and of F, and comparisons of a column of F with a reduction
\* over t and with a reduction over F
AgainPredicates(t, F) ==
    LET plain == {Gt(Col(t, Schema(t)[1]), Lit), Gt(Col(F, Schema(F)[1]), Lit),
                  Gt(Col(F, Schema(F)[Len(Schema(F))]), Col(t, Schema(t)[1]))}
        atoms == plain \cup {Gt(Col(F, Schema(F)[1]), SumOf(Col(t, Schema(t)[1]))),
                             Gt(Col(F, Schema(F)[1]), SumOf(Col(F, Schema(F)[1])))}
    IN {<<x>> : x \in atoms} \cup {<<x, y>> : x \in plain, y \in atoms}

\* scalar reductions over one table and over two, alone and under arithmetic;
\* a reduction of a column expression that spans two tables; a reduction of
\* a column that rests on no table
Reductions ==
    LET cols == Cols(t1) \cup {LastCol(t2), FirstCol(S1)}
        sums == {SumOf(x) : x \in cols} \cup {Name(SumOf(x), "sum") : x \in cols}
        s1 == SumOf(FirstCol(t1))
        s2 == SumOf(LastCol(t2))
    IN sums
       \cup {Plus(x, y) : x \in {s1, Name(s1, "sum")}, y \in sums}
       \cup {Plus(Plus(s1, SumOf(LastCol(t1))), s2), Plus(s1, Plus(s2, s1)),
             Name(Plus(s2, Name(s1, "sum")), "total")}
       \cup {SumOf(Plus(FirstCol(t1), LastCol(t2))), Plus(SumOf(Plus(FirstCol(t1), LastCol(t2))), s1)}
       \cup {SumOf(ToExpr(Unnest(Lit))), Plus(SumOf(ToExpr(Unnest(Lit))), s1)}

\* the operands of a filter, as _rewrite_filter receives them
Operands ==
    Reductions
    \cup Cols(t1) \cup {Lit}
    \cup {Gt(x, y) : x \in Cols(t1), y \in Reductions \cup {Lit}}
    \cup {Name(Gt(x, y), "p") : x \in {FirstCol(t1)}, y \in Reductions \cup {Lit}}
    \cup {Name(FirstCol(t1), "p"), Name(Lit, "p")}
    \cup {Over(SumOf(FirstCol(t1))), Gt(FirstCol(t1), Over(SumOf(FirstCol(t1)))),
          Gt(Name(FirstCol(t1), "p"), Lit)}

Names == {None, "n"}

\* the predicates handed to flatten_predicate: comparisons of a column and
\* of a reduction, and conjunctions of them nested on either side
AndOf(x, y) == ToExpr(Binary("And", x, y))
Conjunctions ==
    LET atoms == {Gt(FirstCol(t1), Lit), Gt(LastCol(t1), Lit), Gt(SumOf(FirstCol(t1)), Lit)}
    IN atoms
       \cup {AndOf(x, y) : x, y \in atoms}
       \cup {AndOf(AndOf(x, y), z) : x, y, z \in atoms}
       \cup {AndOf(x, AndOf(y, z)) : x, y, z \in atoms}

\* the assignments of a mutation of table: a value under the name of a
\* column of the table and under a new name, an unnamed value, the table
\* itself, and destructured struct columns, unnamed and named, whose fields do
\* and do not overwrite columns of the table
Assignments(table) ==
    LET c == Schema(table)[1]
        v == Plus(Col(table, c), Lit)
        d1 == E("StructColumn", Struct(<<c, "z">>))
        d2 == E("StructColumn", Struct(<<"y", "z">>))
        d3 == E("StructColumn", Struct(Schema(table)))
        atoms == {Name(v, c), Name(v, "z"), v, table,
                  E("DestructColumn", d1.op), E("DestructColumn", d2.op),
                  E("DestructColumn", d3.op),
                  E("DestructColumn", Alias(d1, "s")), E("DestructColumn", Alias(d2, c))}
    IN {<<x>> : x \in atoms} \cup {<<x, y>> : x, y \in atoms}

\* the visitors handed to lineage.traverse that yield the node they visit
Visitors == {"EveryNode", "finder", "validate"}

\* the arguments and the result before any call
NoArg == [none |-> TRUE]
NoResult == [none |-> TRUE]

\* --------------------------------------------------------------- operations

Init ==
    /\ call = "none"
    /\ expr \in SubExprs \cup LiftExprs \cup Tables \cup Operands \cup SelfJoins \cup Conjunctions
                \cup Validated \cup ReductionProbes
    /\ arg = NoArg
    /\ result = NoResult
    /\ shared \in BOOLEAN
    /\ cache = <<>>
    /\ calls = 0

\* sub_for(expr, substitutions), on the expression of the last call or on
\* one of its arguments
SubFor ==
    /\ call \in {"none", "sub_for"}
    /\ call = "none" => expr \in SubExprs
    /\ calls < MaxCalls
    /\ calls' = calls + 1
    /\ \E e \in {expr} \cup SeqToSet(flat_args(expr.op)),
          substitutions \in Substitutions :
          LET r == sub_for(e, substitutions) IN
          /\ call' = "sub_for"
          /\ expr' = e
          /\ arg' = [substitutions |-> substitutions]
          /\ result' = [e |-> r.e, same |-> r.same, caught |-> r.st.caught, raised |-> r.st.raised]
          /\ cache' = r.st.tab
          /\ UNCHANGED shared

\* substitute_parents(expr, past_projection=...)
Simplify ==
    /\ call = "none"
    /\ expr \in LiftExprs \cup Tables
    /\ calls < MaxCalls
    /\ calls' = calls + 1
    /\ \E past_projection \in BOOLEAN :
          LET r == substitute_parents(expr, past_projection) IN
          /\ call' = "substitute_parents"
          /\ arg' = [past_projection |-> past_projection]
          /\ result' = [e |-> r.e, same |-> r.same]
    /\ UNCHANGED <<expr, shared, cache>>

\* Projector(expr, proj_exprs).get_result()
Project ==
    /\ call = "none"
    /\ expr \in Tables
    /\ calls < MaxCalls
    /\ calls' = calls + 1
    /\ \E proj_exprs \in Candidates(expr) :
          LET r == Projector(expr, proj_exprs) IN
          /\ call' = "Projector"
          /\ arg' = [proj_exprs |-> proj_exprs]
          /\ result' = [e |-> ToExpr(r.node), fused |-> r.fused]
    /\ UNCHANGED <<expr, shared, cache>>

\* apply_filter(expr, predicates)
Filter ==
    /\ call = "none"
    /\ expr \in Tables
    /\ calls < MaxCalls
    /\ calls' = calls + 1
    /\ \E predicates \in Predicates(expr) :
          /\ call' = "apply_filter"
          /\ arg' = [predicates |-> predicates]
          /\ result' = [e |-> apply_filter(expr, predicates)]
    /\ UNCHANGED <<expr, shared, cache>>

\* apply_filter(apply_filter(expr, predicates), again): a second filter, of
\* the table that the filter of a physical table or of a join returned
FilterAgain ==
    /\ call = "apply_filter"
    /\ expr.op.kind \in {"PhysicalTable", "CrossJoin"}
    /\ arg.predicates # <<>>
    /\ calls < MaxCalls
    /\ calls' = calls + 1
    /\ \E again \in AgainPredicates(expr, result.e) :
          /\ call' = "apply_filter_again"
          /\ arg' = [predicates |-> arg.predicates, again |-> again]
          /\ result' = [first |-> result.e, e |-> apply_filter(result.e, again)]
    /\ UNCHANGED <<expr, shared, cache>>

\* shares_all_roots(expr, parents)
SharesAllRoots ==
    /\ call = "none"
    /\ expr \in Tables
    /\ calls < MaxCalls
    /\ calls' = calls + 1
    /\ \E parents \in Tables :
          /\ call' = "shares_all_roots"
          /\ arg' = [parents |-> parents]
          /\ result' = [holds |-> shares_all_roots(<<expr>>, <<parents>>)]
    /\ UNCHANGED <<expr, shared, cache>>

\* reduction_to_aggregation(expr)
Reduce ==
    /\ call = "none"
    /\ expr \in Reductions
    /\ calls < MaxCalls
    /\ calls' = calls + 1
    /\ call' = "reduction_to_aggregation"
    /\ arg' = NoArg
    /\ result' = reduction_to_aggregation(expr, {})
    /\ UNCHANGED <<expr, shared, cache>>

\* _rewrite_filter(expr.op(), expr, name=...)
RewriteFilter ==
    /\ call = "none"
    /\ expr \in Operands
    /\ calls < MaxCalls
    /\ calls' = calls + 1
    /\ \E name \in Names :
          /\ call' = "_rewrite_filter"
          /\ arg' = [name |-> name]
          /\ result' = _rewrite_filter(expr, name)
    /\ UNCHANGED <<expr, shared, cache>>

\* _PushdownValidate(parent, predicate)._validate_projection(column), the
\* parent being expr with its selection list in one of its orders
Validate ==
    /\ call = "none"
    /\ expr \in Validated
    /\ calls < MaxCalls
    /\ calls' = calls + 1
    /\ \E column \in ValidatedColumns(expr), selections \in Orders(expr.op.selections) :
          /\ call' = "_validate_projection"
          /\ arg' = [column |-> column, selections |-> selections]
          /\ result' = [is_valid |->
                           _validate_projection([expr.op EXCEPT !.selections = selections], column)]
    /\ UNCHANGED <<expr, shared, cache>>

\* is_reduction(expr) and is_scalar_reduction(expr)
IsReduction ==
    /\ call = "none"
    /\ expr \in Operands \cup Tables \cup ReductionProbes
    /\ calls < MaxCalls
    /\ calls' = calls + 1
    /\ call' = "is_reduction"
    /\ arg' = NoArg
    /\ result' = [is_reduction |-> is_reduction(expr),
                  is_scalar_reduction |-> is_scalar_reduction(expr)]
    /\ UNCHANGED <<expr, shared, cache>>

\* lineage.traverse(fn, expr, dedup=...), consumed to its end
Traverse ==
    /\ call = "none"
    /\ calls < MaxCalls
    /\ calls' = calls + 1
    /\ \E fn \in Visitors, dedup \in BOOLEAN :
          /\ call' = "traverse"
          /\ arg' = [fn |-> fn, dedup |-> dedup]
          /\ result' = [yielded |-> traverse(fn, <<expr>>, "Expr", dedup)]
    /\ UNCHANGED <<expr, shared, cache>>

\* find_subqueries(expr)
FindSubqueries ==
    /\ call = "none"
    /\ expr \in Tables \cup SelfJoins \cup LiftExprs
    /\ calls < MaxCalls
    /\ calls' = calls + 1
    /\ call' = "find_subqueries"
    /\ arg' = NoArg
    /\ result' = [counts |-> find_subqueries(expr)]
    /\ UNCHANGED <<expr, shared, cache>>

\* get_mutation_exprs(exprs, expr)
Mutate ==
    /\ call = "none"
    /\ expr \in Tables
    /\ calls < MaxCalls
    /\ calls' = calls + 1
    /\ \E exprs \in Assignments(expr) :
          /\ call' = "get_mutation_exprs"
          /\ arg' = [exprs |-> exprs]
          /\ result' = get_mutation_exprs(exprs, expr)
    /\ UNCHANGED <<expr, shared, cache>>

\* flatten_predicate(expr)
Flatten ==
    /\ call = "none"
    /\ expr \in Conjunctions
    /\ calls < MaxCalls
    /\ calls' = calls + 1
    /\ call' = "flatten_predicate"
    /\ arg' = NoArg
    /\ result' = [exprs |-> flatten_predicate(expr)]
    /\ UNCHANGED <<expr, shared, cache>>

Next ==
    \/ SubFor
    \/ Simplify
    \/ Project
    \/ Filter
    \/ SharesAllRoots
    \/ Reduce
    \/ RewriteFilter
    \/ Traverse
    \/ FindSubqueries
    \/ Mutate
    \/ Flatten
    \/ FilterAgain
    \/ Validate
    \/ IsReduction

Spec == Init /\ [][Next]_vars

\* --------------------------------------------------------------- properties

\* every node of e, and the number of paths that lead to a node
AllNodes(e) == SeqToSet(traverse("EveryNode", <<e>>, "Expr", TRUE))
Count(node, e) ==
    LET s == traverse("EveryNode", <<e>>, "Expr", FALSE)
    IN Cardinality({i \in DOMAIN s : s[i] = node})

\* the occurrences of node in e that lie in no blocking node and in no
\* sequence-valued argument
RECURSIVE ReachCount(_, _)
RECURSIVE ReachCountArgs(_, _, _)
ReachCount(node, e) ==
    IF e.op = node THEN 1
    ELSE IF blocks(e.op) THEN 0
    ELSE ReachCountArgs(node, e.op, 1)
ReachCountArgs(node, parent, i) ==
    LET sig == Signature(parent.kind) IN
    IF i > Len(sig) THEN 0
    ELSE (IF ArgClass(parent, sig[i]) = "expr" THEN ReachCount(node, parent[sig[i]]) ELSE 0)
         + ReachCountArgs(node, parent, i + 1)

Keys(substitutions) == {substitutions[i][1].op : i \in DOMAIN substitutions}

\* C1: substitute_parents applied to its own result, with the same
\* past_projection, returns an expression structurally equal to that result
C1_Idempotent ==
    (call = "substitute_parents") => substitute_parents(result.e, arg.past_projection).e = result.e

\* a sum whose two columns were both lifted over a projection
C1_Witness ==
    /\ call = "substitute_parents"
    /\ arg.past_projection = TRUE
    /\ expr.op.kind = "Add"
    /\ result.e.op.left # expr.op.left
    /\ result.e.op.right # expr.op.right

\* a call that replaces one TableColumn c, which occurs at least twice in expr
TwiceCase ==
    /\ call = "sub_for"
    /\ Len(arg.substitutions) = 1
    /\ arg.substitutions[1][1].op.kind = "TableColumn"
    /\ Count(arg.substitutions[1][1].op, expr) >= 2

C2_Reachable ==
    /\ TwiceCase
    /\ ReachCount(arg.substitutions[1][1].op, expr) = Count(arg.substitutions[1][1].op, expr)
    /\ arg.substitutions[1][1].op \notin AllNodes(arg.substitutions[1][2])
    /\ result.caught = 0

C3_BlockingBoundary ==
    (call = "sub_for" /\ expr.op \notin Keys(arg.substitutions)) =>
        /\ blocks(expr.op) => (result.e = expr /\ result.same)
        /\ ~blocks(expr.op) =>
              \A i \in DOMAIN Signature(expr.op.kind) :
                  LET f == Signature(expr.op.kind)[i] IN
                  (/\ ArgClass(expr.op, f) = "expr"
                   /\ blocks(expr.op[f].op)
                   /\ expr.op[f].op \notin Keys(arg.substitutions))
                  => result.e.op[f] = expr.op[f]

\* a blocking argument that holds a key strictly inside it
C3_Witness ==
    /\ call = "sub_for"
    /\ expr.op.kind = "TableColumn"
    /\ expr.op \notin Keys(arg.substitutions)
    /\ blocks(expr.op.table.op)
    /\ expr.op.table.op \notin Keys(arg.substitutions)
    /\ Keys(arg.substitutions) \cap (AllNodes(expr.op.table) \ {expr.op.table.op}) # {}

\* C4 as stated: sub_for(e, []) returns the object e itself, for every e
C4_AsStated == (call = "sub_for" /\ arg.substitutions = <<>>) => (result.e = expr /\ result.same)

\* C4 (amended): sub_for(e, []) returns an expression structurally equal to
\* e; it is the object e itself when equal subexpressions of e are one
\* object, and then so is every result of sub_for that equals its argument;
\* substitute_parents(e) returns the object e itself whenever its result
\* equals e, that is whenever no TableColumn of e is lifted
C4_IdentityPreserved ==
    /\ (call = "sub_for") =>
          /\ arg.substitutions = <<>> => result.e = expr
          /\ (shared /\ result.e = expr) => result.same
    /\ (call = "substitute_parents") => (result.e = expr => result.same)

C4_Witness ==
    /\ call = "sub_for" /\ arg.substitutions = <<>> /\ shared /\ result.same
    /\ expr.op.kind = "Add" /\ expr.op.left = expr.op.right

\* the node of expr with every expression argument substituted on its own
ArgsSubstituted(e, substitutions) ==
    LET sig == Signature(e.op.kind) IN
    [f \in DOMAIN e.op |->
        IF ArgClass(e.op, f) = "expr" THEN sub_for(e.op[f], substitutions).e ELSE e.op[f]]

\* C5: sub_for raises nothing; a node whose rebuild raises IbisTypeError is
\* returned as the original expression, and a node above it is still rebuilt
\* from what its arguments returned
C5_FailSoft ==
    (call = "sub_for") =>
        /\ ~result.raised
        /\ (expr.op \notin Keys(arg.substitutions) /\ ~blocks(expr.op)) =>
              LET nn == ArgsSubstituted(expr, arg.substitutions) IN
              IF nn = expr.op \/ ~NodeValid(nn) THEN result.e = expr
              ELSE result.e = (IF HasName(expr) THEN Name(E(expr.ty, nn), GetName(expr))
                               ELSE E(expr.ty, nn))

\* a rebuild failed below and the node above was rebuilt all the same
C5_Witness ==
    /\ call = "sub_for"
    /\ result.caught >= 1
    /\ ~result.raised
    /\ result.e # expr
    /\ expr.op \notin Keys(arg.substitutions)

\* C6: whatever calls came before, sub_for(e, m) returns what _substitute
\* computes from e and m with no memoized entry at all, and the table it
\* leaves holds only subexpressions of e
C6_FreshCache ==
    (call = "sub_for") =>
        /\ result.e = _substitute(expr, MappingOf(arg.substitutions), SubstitutorState(FALSE, <<>>)).e
        /\ \A k \in DOMAIN cache : k.op \in AllNodes(expr)

\* a later call of a sequence, whose mapping changed the expression
C6_Witness == call = "sub_for" /\ calls >= 2 /\ arg.substitutions # <<>> /\ result.e # expr

\* a Selection over a physical table whose selection list is made of plain
\* columns of that table: t.select(a, b)
IsPlainProjection(e) ==
    /\ e.op.kind = "Selection"
    /\ e.op.table.op.kind = "PhysicalTable"
    /\ e.op.selections # <<>>
    /\ \A i \in DOMAIN e.op.selections : e.op.selections[i] \in Cols(e.op.table)

\* C7: Projector on the Selection t.select(a, b) with the one candidate a, a
\* column of t in the selection list, fuses: the result is a Selection whose
\* table is t and whose selection list is [a]
C7_FusionRoundTrip ==
    (/\ call = "Projector"
     /\ IsPlainProjection(expr)
     /\ Len(arg.proj_exprs) = 1
     /\ ~IsColumnName(arg.proj_exprs[1])
     /\ arg.proj_exprs[1] \in Cols(expr.op.table)) =>
        /\ result.fused
        /\ result.e.op.kind = "Selection"
        /\ result.e.op.table = expr.op.table
        /\ result.e.op.selections = arg.proj_exprs

C7_Witness ==
    /\ call = "Projector"
    /\ expr = P1
    /\ arg.proj_exprs = <<FirstCol(t1)>>
    /\ result.e.op.table = t1

\* C8: apply_filter on t.select(a, b) with predicates a > 0 over plain
\* columns of t returns the Selection with the same table, selection list
\* and sort keys, the predicates added to its predicate list
C8_PushdownSafety ==
    (/\ call = "apply_filter"
     /\ IsPlainProjection(expr)
     /\ arg.predicates # <<>>
     /\ \A i \in DOMAIN arg.predicates : \E c \in Cols(expr.op.table) : arg.predicates[i] = Gt(c, Lit)) =>
        result.e = ToExpr(Selection(expr.op.table, expr.op.selections,
                                    expr.op.predicates \o arg.predicates, expr.op.sort_keys))

C8_Witness ==
    /\ call = "apply_filter"
    /\ expr = P1
    /\ arg.predicates = <<Gt(FirstCol(t1), Lit)>>
    /\ result.e.op.table = t1
    /\ result.e.op.predicates = arg.predicates

\* C9 as stated: two Selections over the same table and selection list have
\* equal normalized root-table sets, whatever their predicates
C9_AsStated ==
    (/\ call = "shares_all_roots"
     /\ expr.op.kind = "Selection"
     /\ arg.parents.op.kind = "Selection"
     /\ expr.op.table = arg.parents.op.table
     /\ expr.op.selections = arg.parents.op.selections) =>
        /\ result.holds
        /\ RootDeps(<<expr>>) = RootDeps(<<arg.parents>>)

\* C10: reduction_to_aggregation of a reduction with one parent table T is
\* T.aggregate([reduction]); _rewrite_filter of a Reduction with one parent
\* table is the array view of that aggregate of the reduction under the
\* requested name, and carries that name
C10_SingleTableRewrite ==
    LET tables == find_immediate_parent_tables(expr)
        named == IF arg.name # None THEN Name(expr, arg.name) ELSE expr
    IN
    /\ (call = "reduction_to_aggregation" /\ Len(tables) = 1) =>
          /\ result.raised = "none"
          /\ result.e = ToExpr(Aggregation(tables[1], <<expr>>, <<>>, <<>>, <<>>, <<>>))
    /\ (call = "_rewrite_filter" /\ IsReductionNode(expr.op) /\ Len(tables) = 1) =>
          /\ result.raised = "none"
          /\ result.e.op.kind = "TableArrayView"
          /\ result.e.op.table = ToExpr(Aggregation(tables[1], <<named>>, <<>>, <<>>, <<>>, <<>>))
          /\ GetName(result.e) = GetName(named)
          /\ arg.name # None => GetName(result.e) = arg.name

C10_Witness ==
    /\ call = "_rewrite_filter"
    /\ arg.name = "n"
    /\ IsReductionNode(expr.op)
    /\ result.e.op.kind = "TableArrayView"
    /\ result.e.op.table.op.table = t1

\* a scalar reduction that rests on exactly one table
IsUnit(e) == is_scalar_reduction(e) /\ Len(find_immediate_parent_tables(e)) = 1

\* the maximal single-table scalar reductions of e, in order of occurrence
RECURSIVE Units(_)
Units(e) ==
    IF IsUnit(e) THEN <<e>>
    ELSE IF e.op.kind \in BinaryKinds THEN Units(e.op.left) \o Units(e.op.right)
    ELSE IF e.op.kind \in {"Alias", "Sum", "Unnest"} THEN Units(e.op.arg)
    ELSE <<>>

\* the aggregate of one unit over its own table, and the column that stands
\* for the unit; an unnamed unit goes under the name "tmp"
UnitNamed(u) == IF HasName(u) THEN u ELSE Name(u, "tmp")
UnitAggregate(u) ==
    ToExpr(Aggregation(find_immediate_parent_tables(u)[1], <<UnitNamed(u)>>, <<>>, <<>>, <<>>, <<>>))
UnitColumn(u) == ToExpr(TableColumn(UnitAggregate(u), GetName(UnitNamed(u))))

\* e with every unit replaced by its column, names and arithmetic kept
RECURSIVE UnitsReplaced(_)
UnitsReplaced(e) ==
    IF IsUnit(e) THEN UnitColumn(e)
    ELSE IF e.op.kind \in BinaryKinds
    THEN ToExpr(Binary(e.op.kind, UnitsReplaced(e.op.left), UnitsReplaced(e.op.right)))
    ELSE IF e.op.kind = "Alias" THEN Name(UnitsReplaced(e.op.arg), e.op.name)
    ELSE IF e.op.kind = "Sum" THEN ToExpr(Sum(UnitsReplaced(e.op.arg)))
    ELSE e

\* the cross join of a sequence of tables, from the left
RECURSIVE JoinedFromLeft(_)
JoinedFromLeft(ts) ==
    IF Len(ts) = 1 THEN ts[1]
    ELSE ToExpr(CrossJoin(JoinedFromLeft(SubSeq(ts, 1, Len(ts) - 1)), ts[Len(ts)]))

\* what C11 says of a reduction e whose rewrite returned r
MultiTableRewrite(e, r) ==
    LET units == Units(e)
        aggs == [i \in DOMAIN units |-> UnitAggregate(units[i])]
    IN /\ r.raised = "none"
       /\ r.e.op.kind = "Selection"
       /\ r.e.op.table = JoinedFromLeft(aggs)
       /\ r.e.op.selections = <<UnitsReplaced(e)>>
       /\ r.e.op.predicates = <<>>

\* C11 as stated: the rewrite of every scalar reduction that rests on
\* several tables is the projection, over the cross join of the aggregates of
\* its maximal single-table reductions, of the expression with each of them
\* replaced by a column of its aggregate
C11_AsStated ==
    (call = "reduction_to_aggregation" /\ has_multiple_bases(expr)) =>
        MultiTableRewrite(expr, result)

\* the recursion of the rewrite came back to a reduction it was rewriting:
\* the Python recursion has no end but the interpreter's stack limit
Diverges ==
    /\ call \in {"reduction_to_aggregation", "_rewrite_filter"}
    /\ result.raised = "RecursionError"

\* C12 as stated: every entry point returns or raises after a number of steps
\* bounded by the size of the expression, a reduction with no parent table
\* included
C12_AsStated == ~Diverges

\* the node a visitor of Visitors yielded: the node itself or its expression
NodeOf(y) == IF "op" \in DOMAIN y THEN y.op ELSE y

\* the number of times node occurs in a sequence of nodes
Occurrences(node, s) == Cardinality({i \in DOMAIN s : s[i] = node})

\* the number of paths from e to node that fn lets the walk follow and at
\* whose end fn yields: a halt closes the paths through a node
RECURSIVE YieldPaths(_, _, _)
RECURSIVE YieldPathsArgs(_, _, _)
YieldPaths(fn, node, e) ==
    (IF e.op = node /\ CallFn(fn, e).has THEN 1 ELSE 0)
    + (IF CallFn(fn, e).ctl = halt THEN 0 ELSE YieldPathsArgs(fn, node, flat_args(e.op)))
YieldPathsArgs(fn, node, args) ==
    IF args = <<>> THEN 0
    ELSE YieldPaths(fn, node, Head(args)) + YieldPathsArgs(fn, node, Tail(args))

\* C13: a traversal yields a node that several paths reach exactly once with
\* dedup and once for each path without; find_subqueries, which walks
\* without dedup, counts a subquery joined with itself twice
C13_TraversalDedup ==
    /\ (call = "traverse") =>
          LET yielded == [i \in DOMAIN result.yielded |-> NodeOf(result.yielded[i])] IN
          \A node \in AllNodes(expr) :
              LET paths == YieldPaths(arg.fn, node, expr) IN
              Occurrences(node, yielded) = (IF arg.dedup /\ paths > 1 THEN 1 ELSE paths)
    /\ (/\ call = "find_subqueries"
        /\ expr.op.kind = "CrossJoin"
        /\ expr.op.left = expr.op.right
        /\ expr.op.left.op.kind \in {"Selection", "Aggregation"}) =>
          Occurrences(expr.op.left.op, result.counts) = 2

\* a node under two parents, met by a walk with dedup and by one without
C13_Witness ==
    /\ call = "traverse"
    /\ arg.fn = "EveryNode"
    /\ ~arg.dedup
    /\ expr.op.kind = "Add"
    /\ expr.op.left.op.kind = "TableColumn"
    /\ expr.op.right.op.kind = "TableColumn"
    /\ Occurrences(expr.op.left.op.table.op, result.yielded) = 2
    /\ Occurrences(expr.op.left.op.table.op,
                   traverse("EveryNode", <<expr>>, "Expr", TRUE)) = 1

\* C14: get_mutation_exprs raises ExpressionError, and returns no list,
\* whenever one of the assignments is a DestructColumn that has a name,
\* whatever the other assignments are and wherever it stands among them
C14_NamedDestructRaises ==
    (/\ call = "get_mutation_exprs"
     /\ \E i \in DOMAIN arg.exprs :
           IsDestructColumn(arg.exprs[i]) /\ HasName(arg.exprs[i])) =>
        /\ result.raised = "ExpressionError"
        /\ result.exprs = <<>>

\* a named DestructColumn after an assignment that overwrites a column
C14_Witness ==
    /\ call = "get_mutation_exprs"
    /\ Len(arg.exprs) = 2
    /\ ~IsDestructColumn(arg.exprs[1])
    /\ IsExprValue(arg.exprs[1])
    /\ GetName(arg.exprs[1]) \in SeqToSet(Schema(expr))
    /\ IsDestructColumn(arg.exprs[2])
    /\ HasName(arg.exprs[2])
    /\ result.raised = "ExpressionError"

\* the conjuncts of e: its maximal subexpressions that are no And, from left
\* to right
RECURSIVE Conjuncts(_)
Conjuncts(e) ==
    IF e.op.kind = "And" THEN Conjuncts(e.op.left) \o Conjuncts(e.op.right) ELSE <<e>>

\* C15 as stated: flatten_predicate(e) holds no And, holds every conjunct of
\* e, in the order of their first occurrence, and is [e] when e is no And
C15_AsStated ==
    (call = "flatten_predicate") =>
        /\ \A i \in DOMAIN result.exprs : result.exprs[i].op.kind # "And"
        /\ result.exprs = Unique(Conjuncts(expr), {})
        /\ expr.op.kind # "And" => result.exprs = <<expr>>

\* C15 (amended): flatten_predicate(e) holds no And; it holds, in the order
\* of their first occurrence and each once, the conjuncts of e that are
\* boolean columns, and no conjunct of scalar shape; it is [e] when e is a
\* boolean column and no And, and empty when e is no boolean column
C15_ColumnConjuncts ==
    (call = "flatten_predicate") =>
        /\ \A i \in DOMAIN result.exprs : result.exprs[i].op.kind # "And"
        /\ result.exprs =
              Unique(SelectSeq(Conjuncts(expr), LAMBDA c : c.ty = "BooleanColumn"), {})
        /\ (expr.op.kind # "And" /\ expr.ty = "BooleanColumn") => result.exprs = <<expr>>
        /\ expr.ty # "BooleanColumn" => result.exprs = <<>>

\* a nested conjunction of two column predicates and a scalar one
C15_Witness ==
    /\ call = "flatten_predicate"
    /\ expr.op.kind = "And"
    /\ expr.op.left.op.kind = "And"
    /\ Len(result.exprs) = 2
    /\ Len(Unique(Conjuncts(expr), {})) = 3

\* apply_filter put the predicates into the Selection it was given, which
\* has a selection list, rather than wrapping it
FusedIntoProjection ==
    /\ call = "apply_filter"
    /\ expr.op.kind = "Selection"
    /\ expr.op.selections # <<>>
    /\ arg.predicates # <<>>
    /\ result.e.op.kind = "Selection"
    /\ result.e.op.table = expr.op.table
    /\ result.e.op.selections = expr.op.selections

\* the TableColumns a predicate references
ColumnsOf(pred) == SeqToSet(traverse("validate", <<pred>>, "Value", TRUE))

\* (a) of C16: c is a column of a physical table of the selection list,
\* directly or once it is lifted through the projection
FromSelectedTable(c, selections) ==
    \E i \in DOMAIN selections :
        /\ selections[i].op.kind = "PhysicalTable"
        /\ \/ c.op.table = selections[i]
           \/ substitute_parents(c, TRUE).e.op.table = selections[i]

\* (b) of C16: c has the name of an unaliased column of the selection list
\* and the table of that column is its own, before or after lifting without
\* crossing projections
FromSelectedColumn(c, selections) ==
    \E i \in DOMAIN selections :
        /\ selections[i].op.kind = "TableColumn"
        /\ selections[i].op.name = c.op.name
        /\ \/ selections[i].op.table = c.op.table
           \/ selections[i].op.table = substitute_parents(c, FALSE).e.op.table

\* C16 as stated: every TableColumn of every predicate fused into a
\* Selection with a selection list satisfies (a) or (b)
C16_AsStated ==
    FusedIntoProjection =>
        \A i \in DOMAIN arg.predicates : \A c \in ColumnsOf(arg.predicates[i]) :
            FromSelectedTable(c, expr.op.selections) \/ FromSelectedColumn(c, expr.op.selections)

\* apply_filter returned the node it was given with a longer predicate list
FusedIntoExisting ==
    /\ call = "apply_filter"
    /\ expr.op.kind \in {"Selection", "Aggregation"}
    /\ arg.predicates # <<>>
    /\ result.e.op.kind = expr.op.kind
    /\ result.e.op.table = expr.op.table

\* one of the predicates given holds a reduction
SomeReduction == \E i \in DOMAIN arg.predicates : is_reduction(arg.predicates[i])

\* C17 as stated: no predicate that holds a reduction is added to the
\* predicate list of the Selection or Aggregation given
C17_AsStated == FusedIntoExisting => ~SomeReduction

\* C17 (amended): a predicate that holds a reduction is never fused into a
\* Selection that has a selection list, which is then wrapped; an Aggregation
\* and a Selection without a selection list take it, as it was given, with
\* the other predicates whenever the roots of all of them are roots of the
\* table
C17_ReductionNotValidated ==
    (call = "apply_filter" /\ SomeReduction) =>
        /\ (expr.op.kind = "Selection" /\ expr.op.selections # <<>>) =>
              result.e = ToExpr(Selection(expr, <<>>, arg.predicates, <<>>))
        /\ FusedIntoExisting =>
              \A i \in DOMAIN arg.predicates :
                  is_reduction(arg.predicates[i]) =>
                      result.e.op.predicates[Len(expr.op.predicates) + i] = arg.predicates[i]

\* a projection given a predicate over its own columns that holds a reduction
C17_Witness ==
    /\ call = "apply_filter"
    /\ expr = P1
    /\ arg.predicates = <<Gt(FirstCol(t1), SumOf(FirstCol(t1)))>>
    /\ result.e.op.table = expr

\* the result keeps every argument of the node given but the predicates
SameFrame ==
    /\ result.e.op.kind = expr.op.kind
    /\ result.e.op.table = expr.op.table
    /\ result.e.op.sort_keys = expr.op.sort_keys
    /\ expr.op.kind = "Selection" => result.e.op.selections = expr.op.selections
    /\ expr.op.kind = "Aggregation" =>
          /\ result.e.op.metrics = expr.op.metrics
          /\ result.e.op.by = expr.op.by
          /\ result.e.op.having = expr.op.having

\* the predicates of the result after those of the node given
AddedPredicates ==
    SubSeq(result.e.op.predicates, Len(expr.op.predicates) + 1, Len(result.e.op.predicates))

C19_AllOrNothing ==
    (/\ call = "apply_filter"
     /\ expr.op.kind = "Selection"
     /\ expr.op.selections # <<>>
     /\ \E i \in DOMAIN arg.predicates : ~_PushdownValidate(expr.op, arg.predicates[i])) =>
        /\ result.e.op.kind = "Selection"
        /\ result.e.op.table = expr
        /\ result.e.op.selections = <<>>
        /\ result.e.op.predicates = arg.predicates

\* a valid predicate followed by one that fails the validation
C19_Witness ==
    /\ call = "apply_filter"
    /\ expr.op.kind = "Selection"
    /\ expr.op.selections # <<>>
    /\ Len(arg.predicates) = 2
    /\ _PushdownValidate(expr.op, arg.predicates[1])
    /\ ~_PushdownValidate(expr.op, arg.predicates[2])
    /\ result.e.op.table = expr

\* the candidate val fails the lineage test of try_fusion on the Selection
\* root: it is no * projection, and neither it nor its lifted form has all
\* its roots among those of the table of root
FailsLineage(root, val) ==
    /\ ~IsWildcard(root, val)
    /\ ~shares_all_roots(<<substitute_parents(val, FALSE).e>>, <<root.table>>)
    /\ ~shares_all_roots(<<val>>, <<root.table>>)

\* the candidate is an expression that holds no reduction: Projector keeps
\* it as it is given
KeptAsGiven(x) == ~IsColumnName(x) /\ (IsExprTable(x) \/ ~is_reduction(x))

\* C20: when a candidate of a projection of a Selection fails the lineage
\* test, whatever stands before it, nothing is fused: the result is the
\* Selection over the parent itself of the complete list of candidates, each
\* as Projector holds it (a column name resolved, a reduction windowized) and
\* the very candidates given when they are expressions without reductions
C20_FusionAllOrNothing ==
    (/\ call = "Projector"
     /\ expr.op.kind = "Selection"
     /\ \E i \in DOMAIN arg.proj_exprs :
           FailsLineage(expr.op, _ensure_expr(expr, arg.proj_exprs[i]))) =>
        /\ ~result.fused
        /\ result.e.op.kind = "Selection"
        /\ result.e.op.table = expr
        /\ result.e.op.predicates = <<>>
        /\ result.e.op.selections = CleanExprs(expr, arg.proj_exprs)
        /\ (\A i \in DOMAIN arg.proj_exprs : KeptAsGiven(arg.proj_exprs[i])) =>
              result.e.op.selections = arg.proj_exprs

\* two candidates that pass the lineage test and fuse, then one that fails
C20_Witness ==
    /\ call = "Projector"
    /\ expr = P1
    /\ arg.proj_exprs = <<FirstCol(t1), LastCol(t1), LastCol(t2)>>
    /\ ~FailsLineage(expr.op, arg.proj_exprs[1])
    /\ FailsLineage(expr.op, arg.proj_exprs[3])
    /\ result.e.op.table = expr

\* the candidate val sets can_fuse in try_fusion on the Selection root: it is
\* a * projection, or its lifted form has all its roots among those of the
\* table of root
AllowsFusion(root, val) ==
    \/ IsWildcard(root, val)
    \/ shares_all_roots(<<substitute_parents(val, FALSE).e>>, <<root.table>>)

\* a projection of a Selection whose candidates try_fusion takes up
FusionTried ==
    /\ call = "Projector"
    /\ expr.op.kind = "Selection"
    /\ Resolved(arg.proj_exprs, CleanExprs(expr, arg.proj_exprs), expr.op.table) # <<>>

\* C21 as the specification states it: a candidate stops fusion only when it
\* has no root of the table of the parent Selection at all, so a projection
\* with a candidate that allows fusion and with no such rootless candidate
\* is fused
C21_AsStated ==
    (/\ FusionTried
     /\ \E i \in DOMAIN arg.proj_exprs :
           AllowsFusion(expr.op, CleanExprs(expr, arg.proj_exprs)[i])
     /\ \A i \in DOMAIN arg.proj_exprs :
           \/ AllowsFusion(expr.op, CleanExprs(expr, arg.proj_exprs)[i])
           \/ shares_some_roots(<<CleanExprs(expr, arg.proj_exprs)[i]>>, <<expr.op.table>>)) =>
        result.fused

\* C21: a projection of a Selection is fused exactly when some candidate
\* allows fusion and no candidate fails the lineage test, which a candidate
\* fails as soon as one of its roots is not a root of the table of the
\* parent Selection, although it may share others
C21_AbortUnlessAllRoots ==
    FusionTried =>
        (result.fused <=>
            /\ \E i \in DOMAIN arg.proj_exprs :
                  AllowsFusion(expr.op, CleanExprs(expr, arg.proj_exprs)[i])
            /\ \A i \in DOMAIN arg.proj_exprs :
                  ~FailsLineage(expr.op, CleanExprs(expr, arg.proj_exprs)[i]))

\* a column of the table of the Selection, which allows fusion, then a column
\* of the Selection itself, which shares the root of that table and has the
\* Selection as a root besides: nothing is fused
C21_Witness ==
    /\ FusionTried
    /\ Len(arg.proj_exprs) = 2
    /\ AllowsFusion(expr.op, arg.proj_exprs[1])
    /\ arg.proj_exprs[2].op.kind = "TableColumn"
    /\ arg.proj_exprs[2].op.table = expr
    /\ shares_some_roots(<<arg.proj_exprs[2]>>, <<expr.op.table>>)
    /\ FailsLineage(expr.op, arg.proj_exprs[2])
    /\ ~result.fused

\* a call of substitute_parents on a column of a Selection
LiftsSelectionColumn ==
    /\ call = "substitute_parents"
    /\ expr.op.kind = "TableColumn"
    /\ expr.op.table.op.kind = "Selection"

\* the entries of the selection list of the Selection S that are physical
\* tables with the column name in their schema
ProvidingTables(S, name) ==
    {P \in SeqToSet(S.op.selections) :
        P.op.kind = "PhysicalTable" /\ name \in SeqToSet(P.op.schema)}

\* C22: substitute_parents turns a column of a Selection into the column of
\* a physical table exactly when past_projection is true and that table is
\* an entry of the selection list with the column name in its schema; in
\* every other case, that of a column which only a computed or renamed entry
\* provides among them, the very column is returned
C22_LiftEligibility ==
    LiftsSelectionColumn =>
        IF arg.past_projection /\ ProvidingTables(expr.op.table, expr.op.name) # {}
        THEN /\ ~result.same
             /\ result.e.ty = expr.ty
             /\ \E P \in ProvidingTables(expr.op.table, expr.op.name) :
                   result.e.op = TableColumn(P, expr.op.name)
        ELSE result.e = expr /\ result.same

\* the Selection lists t1 and a renamed column: the renamed column is
\* returned as it is although the list holds a physical table
C22_Witness ==
    /\ LiftsSelectionColumn
    /\ arg.past_projection
    /\ \E i \in DOMAIN expr.op.table.op.selections :
          expr.op.table.op.selections[i].op.kind = "PhysicalTable"
    /\ ProvidingTables(expr.op.table, expr.op.name) = {}
    /\ result.e = expr

\* a column that the physical table of the selection list provides is lifted
C22_Lifted ==
    /\ LiftsSelectionColumn
    /\ ProvidingTables(expr.op.table, expr.op.name) # {}
    /\ result.e.op.table \in ProvidingTables(expr.op.table, expr.op.name)

\* the output name a call of _rewrite_filter is asked for: the name passed,
\* or else the name of the alias it is applied to; None when there is neither
RequestedName ==
    IF arg.name # None THEN arg.name
    ELSE IF expr.op.kind = "Alias" THEN expr.op.name
    ELSE None

\* C23 as the specification states it: when _rewrite_filter is applied to
\* an alias or is passed a name and returns, the expression it returns
\* carries the requested name
C23_AsStated ==
    (/\ call = "_rewrite_filter"
     /\ result.raised = "none"
     /\ RequestedName # None) =>
        /\ HasName(result.e)
        /\ GetName(result.e) = RequestedName

\* the kinds of node that _rewrite_filter hands back untouched
PassedThrough == {"TableColumn", "Literal", "Window"}

\* the binary value nodes, which _rewrite_filter_value handles
RewrittenByValue(e) == e.op.kind \in BinaryKinds

\* the expression without the alias that names it
Unnamed(e) == IF e.op.kind = "Alias" THEN e.op.arg ELSE e

\* C24: _rewrite_filter returns a column, a literal or a window function as
\* the very object it was given; it returns a binary value node as the very
\* object unless the rewrite of its left or right argument returned another
\* object, and then it returns the node rebuilt from the two rewritten
\* arguments
C24_PassThrough ==
    (call = "_rewrite_filter" /\ result.raised = "none") =>
        /\ expr.op.kind \in PassedThrough => (result.same /\ result.e = expr)
        /\ RewrittenByValue(expr) =>
              IF /\ _rewrite_filter(expr.op.left, arg.name).same
                 /\ _rewrite_filter(expr.op.right, arg.name).same
              THEN result.same /\ result.e = expr
              ELSE /\ ~result.same
                   /\ Unnamed(result.e).op =
                         Binary(expr.op.kind, _rewrite_filter(expr.op.left, arg.name).e,
                                _rewrite_filter(expr.op.right, arg.name).e)

\* a comparison of a column with a window function over a reduction comes
\* back as it was given: neither argument is rewritten
C24_Witness ==
    /\ call = "_rewrite_filter"
    /\ result.raised = "none"
    /\ expr.op.kind = "Greater"
    /\ expr.op.right.op.kind = "Window"
    /\ is_reduction(expr.op.right.op.expr)
    /\ result.same
    /\ result.e = expr

\* a comparison with a reduction is rebuilt: the left argument is the one
\* given, the right one is the column of the aggregate
C24_Rebuilt ==
    /\ call = "_rewrite_filter"
    /\ result.raised = "none"
    /\ expr.op.kind = "Greater"
    /\ ~result.same
    /\ Unnamed(result.e).op.left = expr.op.left
    /\ Unnamed(result.e).op.right.op.kind = "TableArrayView"

\* the entry val of a selection list validates the column c: it is a
\* physical table with a column of that name, or it is a column of that name
\* of the table of c, as c is given or as it is lifted
EntryValidates(val, c) ==
    \/ val.op.kind = "PhysicalTable" /\ c.op.name \in SeqToSet(val.op.schema)
    \/ /\ val.op.kind = "TableColumn"
       /\ val.op.name = c.op.name
       /\ \/ val.op.table.op = c.op.table.op
          \/ val.op.table.op = substitute_parents(c, FALSE).e.op.table.op

RECURSIVE ReachesReduction(_)
ReachesReduction(e) ==
    IF IsReductionNode(e.op) THEN TRUE
    ELSE IF IsTableNode(e.op) THEN FALSE
    ELSE \E i \in DOMAIN flat_args(e.op) : ReachesReduction(flat_args(e.op)[i])

\* a Reduction node occurs somewhere in e, inside the tables e refers to or not
HoldsReduction(e) == \E n \in AllNodes(e) : IsReductionNode(n)

\* C26: is_reduction(e) is true exactly when a Reduction node is reached from
\* e without going below a table node, and is_scalar_reduction(e) when e is a
\* scalar besides
C26_ReductionAboveTables ==
    (call = "is_reduction") =>
        /\ result.is_reduction <=> ReachesReduction(expr)
        /\ result.is_scalar_reduction <=> (IsExprScalar(expr) /\ ReachesReduction(expr))

\* a value expression over a table that holds a reduction: no reduction
C26_Witness ==
    /\ call = "is_reduction"
    /\ IsExprValue(expr)
    /\ HoldsReduction(expr)
    /\ ~ReachesReduction(expr)
    /\ ~result.is_reduction

\* the predicates are over tables of ts only: every table they refer to
\* directly is one of ts
OverTables(predicates, ts) ==
    \A i \in DOMAIN predicates :
        SeqToSet(find_immediate_parent_tables(predicates[i])) \subseteq ts

\* the predicates with every reference to the table F turned into one to t
Retargeted(predicates, F, t) ==
    [i \in DOMAIN predicates |-> sub_for(predicates[i], <<<<F, t>>>>).e]

\* a filter with predicates over expr, then a filter of the result with
\* predicates over expr or over that result
FilteredTwice ==
    /\ call = "apply_filter_again"
    /\ OverTables(arg.predicates, {expr})
    /\ OverTables(arg.again, {expr, result.first})

\* the one Selection of expr, without selection list, whose predicates are
\* those of the first filter and then those of the second, over expr
Composed ==
    ToExpr(Selection(expr, <<>>,
                     arg.predicates \o Retargeted(arg.again, result.first, expr), <<>>))

\* C27 as stated: the filter of a filter of a table that is neither a
\* Selection nor an Aggregation is one Selection of that table with the
\* predicates of both, those of the second retargeted, and is the filter with
\* both lists at once when the second refers to the table only
C27_AsStated ==
    FilteredTwice =>
        /\ result.e = Composed
        /\ OverTables(arg.again, {expr}) =>
              result.e = apply_filter(expr, arg.predicates \o arg.again)

\* no predicate of the second filter that holds a reduction refers to the
\* result of the first filter
ReductionsOverTable ==
    \A i \in DOMAIN arg.again :
        is_reduction(arg.again[i]) => OverTables(<<arg.again[i]>>, {expr})

\* C27: the filter of a filter never nests, as stated, when the predicates
\* of the second filter that hold a reduction refer to the table only
C27_FilterComposition ==
    (FilteredTwice /\ ReductionsOverTable) =>
        /\ result.e = Composed
        /\ OverTables(arg.again, {expr}) =>
              result.e = apply_filter(expr, arg.predicates \o arg.again)

\* the second filter refers to the result of the first and is retargeted
C27_Witness ==
    /\ FilteredTwice
    /\ ReductionsOverTable
    /\ ~OverTables(arg.again, {expr})
    /\ Len(arg.again) = 2
    /\ result.e.op.table = expr
    /\ Len(result.e.op.predicates) = Len(arg.predicates) + 2
    /\ OverTables(result.e.op.predicates, {expr})

\* what the candidate val adds to the fused selection list of the Selection
\* root: a * projection adds the selection list of root, or the table of root
\* when root has no selection list; any other candidate adds itself
Contribution(root, val) ==
    IF IsWildcard(root, val)
    THEN IF root.selections = <<>> THEN <<root.table>> ELSE root.selections
    ELSE <<substitute_parents(val, FALSE).e>>

\* C28 as stated: the selection list of a fused projection, when its output
\* names are distinct, is made of what the candidates add, in the order of
\* the candidates
C28_AsStated ==
    (FusionTried /\ result.fused /\ NamesUnique(result.e.op.selections)) =>
        result.e.op.selections =
            SeqConcat([i \in DOMAIN arg.proj_exprs |->
                         Contribution(expr.op, CleanExprs(expr, arg.proj_exprs)[i])])

\* C29: whenever Projector fuses, the parent is a Selection and the result is
\* a Selection of the table of the parent with exactly the predicates and
\* the sort keys of the parent
C29_FusionFrame ==
    (call = "Projector" /\ result.fused) =>
        /\ expr.op.kind = "Selection"
        /\ result.e.op.kind = "Selection"
        /\ result.e.op.table = expr.op.table
        /\ result.e.op.predicates = expr.op.predicates
        /\ result.e.op.sort_keys = expr.op.sort_keys

\* a projection of a sorted Selection with a predicate is fused
C29_Witness ==
    /\ call = "Projector"
    /\ result.fused
    /\ expr.op.predicates # <<>>
    /\ expr.op.sort_keys # <<>>
    /\ result.e.op.selections # expr.op.selections
    /\ result.e.op.sort_keys = expr.op.sort_keys

\* the output names of a list of mutation expressions: the columns of a
\* table, the fields of a DestructColumn, the name of a value
MutationNames(exprs) ==
    SeqConcat([i \in DOMAIN exprs |->
                 IF IsExprTable(exprs[i]) THEN Schema(exprs[i])
                 ELSE IF IsDestructColumn(exprs[i]) THEN TypeNames(exprs[i])
                 ELSE <<GetName(exprs[i])>>])

\* the assignment e gives no column that the table has
OverwritesNothing(e, table) ==
    SeqToSet(MutationNames(<<e>>)) \cap SeqToSet(Schema(table)) = {}

\* the assignments that overwrite nothing, in their given order
RECURSIVE NewColumns(_, _)
NewColumns(exprs, table) ==
    IF exprs = <<>> THEN <<>>
    ELSE IF OverwritesNothing(Head(exprs), table)
    THEN <<Head(exprs)>> \o NewColumns(Tail(exprs), table)
    ELSE NewColumns(Tail(exprs), table)

\* every column of the table is an output name of the list exactly once
EveryColumnOnce(exprs, table) ==
    \A c \in SeqToSet(Schema(table)) : Occurrences(c, MutationNames(exprs)) = 1

\* no DestructColumn stands in the list more often than it was assigned
DestructsOnce(exprs, given) ==
    \A i \in DOMAIN exprs :
        IsDestructColumn(exprs[i]) => Occurrences(exprs[i], exprs) <= Occurrences(exprs[i], given)

\* the list ends with the assignments that overwrite nothing
NewColumnsLast(exprs, given, table) ==
    /\ Len(exprs) >= Len(NewColumns(given, table))
    /\ SubSeq(exprs, Len(exprs) - Len(NewColumns(given, table)) + 1, Len(exprs))
          = NewColumns(given, table)

\* a mutation of a table whose column names are distinct, by values and
\* DestructColumns, for which get_mutation_exprs returns
Mutated ==
    /\ call = "get_mutation_exprs"
    /\ result.raised = "none"
    /\ NamesUnique(<<expr>>)
    /\ \A i \in DOMAIN arg.exprs : ~IsExprTable(arg.exprs[i])

\* C30 as stated: when get_mutation_exprs returns, every column of the
\* table is an output name of the returned list exactly once, no
\* DestructColumn is repeated, and the assignments that overwrite nothing
\* come last in their given order
C30_AsStated ==
    Mutated =>
        /\ EveryColumnOnce(result.exprs, expr)
        /\ DestructsOnce(result.exprs, arg.exprs)
        /\ NewColumnsLast(result.exprs, arg.exprs, expr)

=============================================================================
